---- MODULE Spec2Model ----
(***************************************************************************)
(* Upload queue and heuristic field extractor of the payroll portal        *)
(* (src/pages/UploadDocuments.tsx).                                        *)
(*                                                                         *)
(* Strings of the program are modelled as sequences of one-character       *)
(* strings, so that case conversion, substring search and the regular      *)
(* expressions of analyzeFile are computed character by character.  The    *)
(* one multi-letter "character" is "CEDI", standing for the cedi sign.     *)
(***************************************************************************)
EXTENDS Integers, Sequences, FiniteSets, TLC

(***************************************************************************)
(* Characters and strings                                                  *)
(***************************************************************************)
LowerLetters == <<"a","b","c","d","e","f","g","h","i","j","k","l","m",
                  "n","o","p","q","r","s","t","u","v","w","x","y","z">>

UpperLetters == <<"A","B","C","D","E","F","G","H","I","J","K","L","M",
                  "N","O","P","Q","R","S","T","U","V","W","X","Y","Z">>

Range(s) == { s[i] : i \in 1..Len(s) }

IsLower(c) == c \in Range(LowerLetters)

IsUpper(c) == c \in Range(UpperLetters)

\* [a-z] under the i flag
IsAlpha(c) == IsLower(c) \/ IsUpper(c)

\* \d
IsDigit(c) == c \in {"0","1","2","3","4","5","6","7","8","9"}

\* \s
IsSpace(c) == c \in {" ", "\t", "\n"}

\* [^0-9]
NotDigit(c) == ~IsDigit(c)

\* [\d,]
IsDigitOrComma(c) == IsDigit(c) \/ c = ","

UpperChar(c) == IF IsLower(c)
                THEN UpperLetters[CHOOSE i \in 1..26 : LowerLetters[i] = c]
                ELSE c

LowerChar(c) == IF IsUpper(c)
                THEN LowerLetters[CHOOSE i \in 1..26 : UpperLetters[i] = c]
                ELSE c

\* String.prototype.toUpperCase
toUpperCase(s) == [i \in 1..Len(s) |-> UpperChar(s[i])]

\* String.prototype.toLowerCase
toLowerCase(s) == [i \in 1..Len(s) |-> LowerChar(s[i])]

\* String.prototype.includes
includes(s, t) == \E i \in 0..(Len(s) - Len(t)) : SubSeq(s, i + 1, i + Len(t)) = t

\* a literal of a case-insensitive pattern (lit is upper case) found at p
MatchLit(t, p, lit) ==
    /\ p + Len(lit) - 1 <= Len(t)
    /\ toUpperCase(SubSeq(t, p, p + Len(lit) - 1)) = lit

\* the character classes that the patterns repeat with a star or a plus
InClass(class, c) ==
    CASE class = "\\s"     -> IsSpace(c)
      [] class = "[a-z]"   -> IsAlpha(c)
      [] class = "[^0-9]"  -> NotDigit(c)
      [] class = "[\\d,]"  -> IsDigitOrComma(c)

\* the position after the longest run, starting at p, of characters in class
RunEnd(t, p, class) ==
    CHOOSE q \in p..(Len(t) + 1) :
        /\ \A k \in p..(q - 1) : InClass(class, t[k])
        /\ (q = Len(t) + 1 \/ ~InClass(class, t[q]))

Min(S) == CHOOSE x \in S : \A y \in S : x <= y

Max(S) == CHOOSE x \in S : \A y \in S : x >= y

(***************************************************************************)
(* Title: file.name.replace(/\.[^/.]+$/, "")                               *)
(***************************************************************************)
ExtensionStarts(name) ==
    { i \in 1..(Len(name) - 1) :
        /\ name[i] = "."
        /\ \A k \in (i + 1)..Len(name) : name[k] \notin {"/", "."} }

stripExtension(name) ==
    IF ExtensionStarts(name) = {} THEN name
    ELSE SubSeq(name, 1, Min(ExtensionStarts(name)) - 1)

(***************************************************************************)
(* Amount: the two netPayPatterns                                          *)
(***************************************************************************)
\* (?:GHC|GHS|GH<cedi>|\$) in the order of the alternation
Currencies == << <<"G","H","C">>, <<"G","H","S">>, <<"G","H","CEDI">>, <<"$">> >>

\* Net\s*Pay | Net\s*Amount | Take\s*Home | Net\s*Payable, in that order
NetPayLabels == << << <<"N","E","T">>, <<"P","A","Y">> >>,
                   << <<"N","E","T">>, <<"A","M","O","U","N","T">> >>,
                   << <<"T","A","K","E">>, <<"H","O","M","E">> >>,
                   << <<"N","E","T">>, <<"P","A","Y","A","B","L","E">> >> >>

\* the second pattern lists only the first three labels
NumLabelsAfterAmount == 3

\* word \s* word at p: the position after the label, 0 when it does not match
MatchLabel(t, p, label) ==
    IF ~MatchLit(t, p, label[1]) THEN 0
    ELSE LET q == RunEnd(t, p + Len(label[1]), "\\s")
         IN  IF MatchLit(t, q, label[2]) THEN q + Len(label[2]) ELSE 0

\* variant: the lookahead is .*YTD
YtdAhead_Anywhere(t, e) ==
    \E j \in e..Len(t) : MatchLit(t, j, <<"Y","T","D">>)

\* the lookahead [a-z]*\s*YTD succeeds at e
YtdAhead(t, e) ==
    \E i \in e..RunEnd(t, e, "[a-z]") :
        \E j \in i..RunEnd(t, i, "\\s") : MatchLit(t, j, <<"Y","T","D">>)

\* \s*[\d,]+\.\d{2} at p: <<q, r>> with the spaces ending at q and the dot at r
NumberCands(t, p) ==
    { c \in (p..RunEnd(t, p, "\\s")) \X (p..Len(t)) :
        /\ c[2] > c[1]
        /\ c[2] <= RunEnd(t, c[1], "[\\d,]")
        /\ t[c[2]] = "."
        /\ c[2] + 2 <= Len(t)
        /\ IsDigit(t[c[2] + 1])
        /\ IsDigit(t[c[2] + 2]) }

\* greedy \s* then greedy [\d,]+ : the position after the number, 0 for none
BestNumberEnd(cands) ==
    IF cands = {} THEN 0
    ELSE LET q == Max({ c[1] : c \in cands })
         IN  Max({ c[2] : c \in { d \in cands : d[1] = q } }) + 3

NumberAt(t, p) == BestNumberEnd(NumberCands(t, p))

\* ends[i] is where the token ends when it starts with Currencies[i], ends[0]
\* where it ends without a currency marker: the markers are tried first
FirstTokenEnd(ends) ==
    LET withCur == { i \in 1..Len(Currencies) : ends[i] # 0 }
    IN  IF withCur # {} THEN ends[Min(withCur)] ELSE ends[0]

\* (?:GHC|GHS|GH<cedi>|\$)?\s*[\d,]+\.\d{2} at k: the position after the
\* token, 0 for none
AmountToken(t, k) ==
    FirstTokenEnd([ i \in 0..Len(Currencies) |->
        IF i = 0 THEN NumberAt(t, k)
        ELSE IF MatchLit(t, k, Currencies[i])
             THEN NumberAt(t, k + Len(Currencies[i]))
             ELSE 0 ])

\* toks[k] is where an amount token starting at k ends: << >> when there is
\* none, else << the text of the first one >>
FirstToken(t, toks) ==
    LET ks == { k \in DOMAIN toks : k <= Len(t) /\ toks[k] # 0 }
    IN  IF ks = {} THEN << >>
        ELSE << SubSeq(t, Min(ks), toks[Min(ks)] - 1) >>

\* (?![a-z]*\s*YTD)[^0-9]*?(token) after a label that ends before e: the lazy
\* [^0-9]*? stops at the first position where the amount token matches
AmountAfterLabel(t, e) ==
    IF e = 0 \/ YtdAhead(t, e) THEN << >>
    ELSE FirstToken(t, [ k \in e..RunEnd(t, e, "[^0-9]") |-> AmountToken(t, k) ])

\* pattern 1 with the label starting at s and the alternative a
LabelThenAmountAt(t, s, a) == AmountAfterLabel(t, MatchLabel(t, s, NetPayLabels[a]))

\* the leftmost start wins, then the first alternative
FirstLabelMatch(found) ==
    LET hits == { c \in DOMAIN found : found[c] # << >> }
    IN  IF hits = {} THEN << >>
        ELSE LET s == Min({ c[1] : c \in hits })
             IN  found[<< s, Min({ c[2] : c \in { d \in hits : d[1] = s } }) >>]

\* String.prototype.match with pattern 1: << >> for null, else << match[1] >>
matchLabelThenAmount(t) ==
    FirstLabelMatch([ c \in (1..Len(t)) \X (1..Len(NetPayLabels)) |->
                        LabelThenAmountAt(t, c[1], c[2]) ])

\* \s*(?:Net\s*Pay|Net\s*Amount|Take\s*Home) after a token that ends before e
LabelAfterAmount(t, s, e) ==
    IF e = 0 THEN << >>
    ELSE IF \E a \in 1..NumLabelsAfterAmount :
               MatchLabel(t, RunEnd(t, e, "\\s"), NetPayLabels[a]) # 0
         THEN << SubSeq(t, s, e - 1) >>
         ELSE << >>

\* pattern 2 with the amount token starting at s
AmountThenLabelAt(t, s) == LabelAfterAmount(t, s, AmountToken(t, s))

\* the leftmost start wins
FirstAmountMatch(found) ==
    LET hits == { s \in DOMAIN found : found[s] # << >> }
    IN  IF hits = {} THEN << >> ELSE found[Min(hits)]

\* String.prototype.match with pattern 2
matchAmountThenLabel(t) ==
    FirstAmountMatch([ s \in 1..Len(t) |-> AmountThenLabelAt(t, s) ])

\* variant: the thousands separators are kept
cleanAmount_KeepsCommas(raw) == SelectSeq(raw, LAMBDA c : IsDigitOrComma(c) \/ c = ".")

\* rawAmount.replace(/[^\d.]/g, '')
cleanAmount(raw) == SelectSeq(raw, LAMBDA c : IsDigit(c) \/ c = ".")

\* the loop over the matches of netPayPatterns: the first pattern with a
\* match and a non-empty cleaned amount wins; << >> when the amount stays blank
firstCleanAmount(matches) ==
    LET good == { i \in 1..Len(matches) :
                    matches[i] # << >> /\ cleanAmount(matches[i][1]) # << >> }
    IN  IF good = {} THEN << >> ELSE cleanAmount(matches[Min(good)][1])

extractAmount(fullText) ==
    firstCleanAmount(<< matchLabelThenAmount(fullText), matchAmountThenLabel(fullText) >>)

(***************************************************************************)
(* Period: year and month detection                                        *)
(***************************************************************************)
months == << <<"J","A","N">>,
          <<"F","E","B">>,
          <<"M","A","R">>,
          <<"A","P","R">>,
          <<"M","A","Y">>,
          <<"J","U","N">>,
          <<"J","U","L">>,
          <<"A","U","G">>,
          <<"S","E","P">>,
          <<"O","C","T">>,
          <<"N","O","V">>,
          <<"D","E","C">> >>

fullMonths == << <<"J","A","N","U","A","R","Y">>,
              <<"F","E","B","R","U","A","R","Y">>,
              <<"M","A","R","C","H">>,
              <<"A","P","R","I","L">>,
              <<"M","A","Y">>,
              <<"J","U","N","E">>,
              <<"J","U","L","Y">>,
              <<"A","U","G","U","S","T">>,
              <<"S","E","P","T","E","M","B","E","R">>,
              <<"O","C","T","O","B","E","R">>,
              <<"N","O","V","E","M","B","E","R">>,
              <<"D","E","C","E","M","B","E","R">> >>

\* new Date().getFullYear().toString()
currentYear == <<"2","0","2","6">>

\* String.prototype.match(/20[2-3][0-9]/): << >> for null, else << match[0] >>
matchYear(s) ==
    LET hits == { i \in 1..(Len(s) - 3) :
                    /\ s[i] = "2"
                    /\ s[i + 1] = "0"
                    /\ s[i + 2] \in {"2", "3"}
                    /\ IsDigit(s[i + 3]) }
    IN  IF hits = {} THEN << >> ELSE << SubSeq(s, Min(hits), Min(hits) + 3) >>

\* upperName.match(..) || upperText.match(..), else the current year
firstYear(matches) ==
    LET found == { i \in 1..Len(matches) : matches[i] # << >> }
    IN  IF found = {} THEN currentYear ELSE matches[Min(found)][1]

detectYear(upperName, upperText) ==
    firstYear(<< matchYear(upperName), matchYear(upperText) >>)

\* the loop over fullMonths, then, when it found nothing, the loop over months
detectMonth(upperName, upperText) ==
    LET fullHits == { i \in 1..Len(fullMonths) :
                        \/ includes(upperName, fullMonths[i])
                        \/ includes(upperText, fullMonths[i]) }
        abbrHits == { i \in 1..Len(months) :
                        \/ includes(upperName, months[i])
                        \/ includes(upperText, <<" ">> \o months[i] \o <<" ">>)
                        \/ includes(upperText, months[i] \o <<" ">>)
                        \/ includes(upperText, <<" ">> \o months[i]) }
    IN  IF fullHits # {} THEN SubSeq(fullMonths[Min(fullHits)], 1, 3)
        ELSE IF abbrHits # {} THEN months[Min(abbrHits)]
        ELSE << >>

\* `${month.charAt(0) + month.slice(1).toLowerCase()} ${year}`
formatPeriod(month, year) ==
    SubSeq(month, 1, 1) \o toLowerCase(SubSeq(month, 2, Len(month))) \o <<" ">> \o year

(***************************************************************************)
(* Known employees                                                         *)
(*                                                                         *)
(* A user is [id, name, nameIsString].  The snapshot listener copies       *)
(* data.name from the stored record without checking its type, so a record *)
(* whose name is not a string (nameIsString = FALSE) reaches analyzeFile,  *)
(* where user.name.toUpperCase() throws a TypeError for it.                *)
(***************************************************************************)
\* useState<User[]>([])
NoUsers == << >>

\* setUsersList([currentUser])
OnlyCurrentUser ==
    << [id |-> "u0", name |-> <<"A","m","a"," ","A","d","m","i","n">>, nameIsString |-> TRUE] >>

\* a snapshot, sorted by name with localeCompare
JaneAndJaneDoe ==
    << [id |-> "u1", name |-> <<"J","a","n","e">>, nameIsString |-> TRUE],
       [id |-> "u2", name |-> <<"J","a","n","e"," ","D","o","e">>, nameIsString |-> TRUE] >>

\* a snapshot of one record whose stored name is a number
OneMalformedUser ==
    << [id |-> "u9", name |-> << >>, nameIsString |-> FALSE] >>

UserLists == { OnlyCurrentUser, JaneAndJaneDoe, OneMalformedUser }

\* b.name.length - a.name.length; a name that is not a string has no length,
\* the difference is NaN and the comparison counts as equal
nameLength(u) == IF u.nameIsString THEN Len(u.name) ELSE 0

\* [...usersList].sort((a, b) => b.name.length - a.name.length), a stable sort
sortedUsers(users) ==
    LET before(i) == { j \in 1..Len(users) :
                         \/ nameLength(users[j]) > nameLength(users[i])
                         \/ /\ nameLength(users[j]) = nameLength(users[i])
                            /\ j < i }
    IN  [r \in 1..Len(users) |->
            users[CHOOSE i \in 1..Len(users) : Cardinality(before(i)) = r - 1]]

\* upperName.includes(user.name.toUpperCase()) || upperText.includes(...)
nameOccurs(u, upperName, upperText) ==
    \/ includes(upperName, toUpperCase(u.name))
    \/ includes(upperText, toUpperCase(u.name))

\* the loop over the sorted users stops at the first user that matches or
\* whose name makes toUpperCase throw: << >> when it runs to its end
firstHit(su, upperName, upperText) ==
    LET hits == { i \in 1..Len(su) :
                    ~su[i].nameIsString \/ nameOccurs(su[i], upperName, upperText) }
    IN  IF hits = {} THEN << >> ELSE << su[Min(hits)] >>

firstUserHit(users, upperName, upperText) ==
    firstHit(sortedUsers(users), upperName, upperText)

(***************************************************************************)
(* Files                                                                   *)
(*                                                                         *)
(* A file is [name, type, pages, failsAt]: pages are the flattened texts   *)
(* of its pages (the items of a page joined with single spaces), failsAt   *)
(* is the page at which pdf.js throws (1 also stands for arrayBuffer or    *)
(* getDocument throwing), 0 when it never throws.                          *)
(***************************************************************************)
PdfType == "application/pdf"

Files ==
    [ janeDoe |-> [name |-> <<"J","A","N","E","_","D","O","E","_","P","A","Y","S","L","I","P",".","p","d","f">>,
                   type |-> PdfType, pages |-> << <<"P","a","y"," ","s","l","i","p">> >>, failsAt |-> 0],
      ytd     |-> [name |-> <<"s","t","u","b",".","p","d","f">>,
                   type |-> PdfType,
                   pages |-> << <<"N","e","t"," ","P","a","y",":"," ","G","H","S"," ","1",",","2","3","4",".","5","6"," ","Y","T","D"," ","1","0",",","0","0","0",".","0","0">> >>,
                   failsAt |-> 0],
      march   |-> [name |-> <<"s","l","i","p","_","m","a","r","c","h","_","2","0","2","4",".","p","d","f">>,
                   type |-> PdfType,
                   pages |-> << <<"N","e","t"," ","P","a","y"," ",".",".","."," ","G","H","C"," ","2",",","5","0","0",".","0","0">>,
                                <<"P","r","e","p","a","r","e","d"," ","f","o","r"," ","J","a","n","e"," ","D","o","e">>,
                                <<"J","a","n","e"," ","D","o","e">> >>,
                   failsAt |-> 0],
      broken  |-> [name |-> <<"b","r","o","k","e","n","_","f","e","b","_","2","0","2","5",".","p","d","f">>,
                   type |-> PdfType,
                   pages |-> << <<"N","e","t"," ","P","a","y"," ","1","0",".","0","0">> >>,
                   failsAt |-> 1],
      partial |-> [name |-> <<"t","w","o",".","p","a","g","e","s",".","p","d","f">>,
                   type |-> PdfType,
                   pages |-> << <<"T","a","k","e"," ","H","o","m","e"," ","$"," ","7",".","0","0">>,
                                <<"J","a","n","e">> >>,
                   failsAt |-> 2],
      note    |-> [name |-> <<"n","o","t","e","s",".","t","x","t">>,
                   type |-> "text/plain", pages |-> << >>, failsAt |-> 0] ]

FileIds == DOMAIN Files

\* the files offered to the queue when several files are queued
QueueFileIds == {"ytd", "broken", "note"}

\* Math.min(pdf.numPages, 2)
MaxPagesScanned == 2

\* the pages whose text is appended to fullText before the loop ends or throws
pagesRead(file) ==
    LET maxPages == IF Len(file.pages) < MaxPagesScanned
                    THEN Len(file.pages) ELSE MaxPagesScanned
    IN  IF file.failsAt = 0 \/ file.failsAt > maxPages
        THEN maxPages ELSE file.failsAt - 1

\* the PDF text extraction threw and was caught by the inner catch
extractionThrows(file) ==
    file.failsAt # 0 /\ pagesRead(file) = file.failsAt - 1

RECURSIVE joinPages(_, _)
\* fullText += pageText + ' ' for the first n pages
joinPages(pages, n) ==
    IF n = 0 THEN << >>
    ELSE joinPages(pages, n - 1) \o pages[n] \o <<" ">>

extractText(file) == joinPages(file.pages, pagesRead(file))

(***************************************************************************)
(* analyzeFile: the values it computes before its setQueue call.           *)
(* threw = TRUE is the outer catch.                                        *)
(***************************************************************************)
\* variant: 'employee' is pushed after the single-user fallback
fieldsOf_FallbackMarked(title, amount, month, year, hitUser, users) ==
    IF hitUser # << >> /\ ~hitUser[1].nameIsString
    THEN [threw |-> TRUE, title |-> << >>, amount |-> << >>, period |-> << >>,
          selectedUserId |-> "", extractedFields |-> << >>]
    ELSE [threw |-> FALSE,
          title |-> title,
          amount |-> amount,
          period |-> IF month # << >> THEN formatPeriod(month, year) ELSE << >>,
          selectedUserId |-> IF hitUser # << >> THEN hitUser[1].id
                             ELSE IF Len(users) = 1 THEN users[1].id ELSE "",
          extractedFields |-> <<"title">>
              \o (IF amount # << >> THEN <<"amount">> ELSE << >>)
              \o (IF month # << >> THEN <<"period">> ELSE << >>)
              \o (IF hitUser # << >> \/ Len(users) = 1
                  THEN <<"employee">> ELSE << >>)]

\* variant: the fallback takes the first known user whenever there is one
fieldsOf_FallbackFirst(title, amount, month, year, hitUser, users) ==
    IF hitUser # << >> /\ ~hitUser[1].nameIsString
    THEN [threw |-> TRUE, title |-> << >>, amount |-> << >>, period |-> << >>,
          selectedUserId |-> "", extractedFields |-> << >>]
    ELSE [threw |-> FALSE,
          title |-> title,
          amount |-> amount,
          period |-> IF month # << >> THEN formatPeriod(month, year) ELSE << >>,
          selectedUserId |-> IF hitUser # << >> THEN hitUser[1].id
                             ELSE IF Len(users) >= 1 THEN users[1].id ELSE "",
          extractedFields |-> <<"title">>
              \o (IF amount # << >> THEN <<"amount">> ELSE << >>)
              \o (IF month # << >> THEN <<"period">> ELSE << >>)
              \o (IF hitUser # << >> THEN <<"employee">> ELSE << >>)]

\* the values of the try block once the loop over sortedUsers has ended:
\* hitUser is << >> when no user matched, else << the user the loop stopped at >>
fieldsOf(title, amount, month, year, hitUser, users) ==
    IF hitUser # << >> /\ ~hitUser[1].nameIsString
    THEN [threw |-> TRUE, title |-> << >>, amount |-> << >>, period |-> << >>,
          selectedUserId |-> "", extractedFields |-> << >>]
    ELSE [threw |-> FALSE,
          title |-> title,
          amount |-> amount,
          period |-> IF month # << >> THEN formatPeriod(month, year) ELSE << >>,
          selectedUserId |-> IF hitUser # << >> THEN hitUser[1].id
                             ELSE IF Len(users) = 1 THEN users[1].id ELSE "",
          extractedFields |-> <<"title">>
              \o (IF amount # << >> THEN <<"amount">> ELSE << >>)
              \o (IF month # << >> THEN <<"period">> ELSE << >>)
              \o (IF hitUser # << >> THEN <<"employee">> ELSE << >>)]

\* sections 1 to 3 of analyzeFile, on the upper-cased name and text
detectFields(upperName, upperText, amount, users) ==
    fieldsOf(upperName, amount, detectMonth(upperName, upperText),
             detectYear(upperName, upperText),
             firstUserHit(users, upperName, upperText), users)

\* title = fileNameWithoutExt.toUpperCase() is upperName
analyzeText(fileNameWithoutExt, fullText, users) ==
    detectFields(toUpperCase(fileNameWithoutExt), toUpperCase(fullText),
                 extractAmount(fullText), users)

\* variant: the inner catch is missing, a PDF error reaches the outer catch
analyzeFile_Rethrows(file, users) ==
    IF extractionThrows(file)
    THEN [threw |-> TRUE, title |-> << >>, amount |-> << >>, period |-> << >>,
          selectedUserId |-> "", extractedFields |-> << >>]
    ELSE analyzeText(stripExtension(file.name), extractText(file), users)

analyzeFile(file, users) ==
    analyzeText(stripExtension(file.name), extractText(file), users)

(***************************************************************************)
(* The upload queue                                                        *)
(***************************************************************************)
\* files added in the whole run
MaxFiles == 3

\* files in one FileList
MaxBatch == 2

\* calls of handleUpdate in the whole run
MaxEdits == 1

\* snapshots of the users collection delivered in the whole run
MaxUserChanges == 1

VARIABLES
    queue,            \* useState<QueuedDocument[]>
    usersList,        \* useState<User[]>
    analyzingDocId,   \* useState<string | null>, NoDoc for null
    running,          \* the analyzeFile calls in flight, each with its closure
    timers,           \* the setTimeout callbacks of processQueue not yet fired
    nextId,           \* the next fresh document id
    started,          \* history: the ids set to analyzing, in that order
    removedPending,   \* history: the ids removed while still pending
    edits,            \* number of handleUpdate calls so far
    userChanges,      \* number of users snapshots so far
    sample,           \* a file and the usersList handed to one analyzeFile call
    analysis,         \* << >>, or << what that call computed >>
    isSubmitting,     \* useState(false)
    uploadComplete,   \* useState(false)
    successCount,     \* useState(0)
    closure,          \* queue and usersList in the closure of handleBulkUpload
    cursor,           \* index in closure.docs of the docItem of the loop, 0 outside
    stage,            \* the await the loop body stands at
    localSuccessCount,\* let localSuccessCount
    alerts,           \* the alert() calls so far, in order
    documents,        \* the records added to users/{id}/documents, in order
    attempted,        \* history: the ids the loop of this call has taken
    writeLog,         \* history: begin and end of each item's database writes
    submits,          \* number of clicks on the upload button so far
    authUsers,        \* the accounts of Firebase Auth, the uid being the index
    usersCollection,  \* the role in each users/{uid} document, NoRole if none
    signups,          \* history: each sign-up with the role it stored
    currentUser,      \* useState<User | null> of App, NoUser for null
    currentView,      \* useState<ViewState> of App
    view,             \* useState of Login: the form that is shown
    errors,           \* nameError, emailError, passwordError, formError of Login
    showTimeoutWarning, \* useState(false) of App
    sinceActivity,    \* Date.now() - lastActivityRef.current, in ms
    sinceEvent,       \* history: ms since the last activity event or sign-in
    sinceCheck,       \* ms since the interval callback last ran or was set
    signingOut,       \* the signOut calls of handleLogout not yet settled
    lastCheck,        \* history: what the last interval callback saw and did
    storedDocuments,  \* the documents of users/{employeeId}/documents, the id being the index
    pageDocuments,    \* useState<PayrollDocument[]> of AllDocuments, for each viewer
    selectedIds,      \* useState<Set<string>> of AllDocuments, for each viewer
    isBulkProcessing, \* useState(false) of AllDocuments, for each viewer
    fetching,         \* the fetchDocuments calls awaiting getDocs, for each viewer
    committing,       \* the closure of handleBulkMarkProcessed awaiting batch.commit
    downloading       \* the ids whose updateDoc of handleDownload has not settled

\* the state of the upload queue
queueVars == << queue, usersList, analyzingDocId, running, timers, nextId,
                started, removedPending, edits, userChanges >>

\* one call of analyzeFile taken on its own
analysisVars == << sample, analysis >>

\* the state of handleBulkUpload, with the database collection it writes
submitVars == << isSubmitting, uploadComplete, successCount, closure, cursor,
                 stage, localSuccessCount, alerts, documents, attempted,
                 writeLog, submits >>

\* the state of App and Login, with the accounts and the users collection
appVars == << authUsers, usersCollection, signups, currentUser, currentView,
              view, errors, showTimeoutWarning, sinceActivity, sinceEvent,
              sinceCheck, signingOut, lastCheck >>

\* the state of the AllDocuments page of each viewer, with the stored documents
docsVars == << storedDocuments, pageDocuments, selectedIds, isBulkProcessing,
              fetching, committing, downloading >>

\* what no handler of the upload queue writes
outsideQueue == << analysisVars, submitVars, appVars, docsVars >>

vars == << queueVars, outsideQueue >>

NoDoc == 0

\* the advisory message of the catch block of analyzeFile
ErrorMsg == "Automatic processing failed."

\* DocType.PAY_STUB
PayStub == "Pay Stub"

\* the entry handleFiles builds for a file
newQueuedDocument(id, fileId, users) ==
    [ id |-> id, file |-> fileId, status |-> "pending",
      title |-> << >>,
      selectedUserId |-> IF Len(users) = 1 THEN users[1].id ELSE "",
      isManualEntry |-> FALSE, manualName |-> "", manualEmail |-> "",
      docType |-> PayStub, period |-> << >>, amount |-> << >>,
      extractedFields |-> << >>, errorMsg |-> "" ]

\* { ...d, ...updates }
merge(d, updates) ==
    [ f \in DOMAIN d |-> IF f \in DOMAIN updates THEN updates[f] ELSE d[f] ]

\* variant: the updates are merged into every item
updateDoc_EveryItem(q, id, updates) ==
    [ i \in 1..Len(q) |-> merge(q[i], updates) ]

\* prev.map(d => d.id === id ? { ...d, ...updates } : d)
updateDoc(q, id, updates) ==
    [ i \in 1..Len(q) |-> IF q[i].id = id THEN merge(q[i], updates) ELSE q[i] ]

\* variant: the filter keeps every item
removeDoc_KeepsAll(q, id) == SelectSeq(q, LAMBDA d : TRUE)

\* prev.filter(d => d.id !== id)
removeDoc(q, id) == SelectSeq(q, LAMBDA d : d.id # id)

\* the setQueue call at the end of the try block of analyzeFile
successUpdates(res) ==
    [ status |-> "success", extractedFields |-> res.extractedFields,
      amount |-> res.amount, period |-> res.period, title |-> res.title,
      selectedUserId |-> res.selectedUserId, manualName |-> "",
      isManualEntry |-> FALSE ]

\* variant: a failed analysis puts the item back in line
errorUpdates_Requeue == [ status |-> "pending", errorMsg |-> ErrorMsg ]

\* the setQueue call of the catch block of analyzeFile
errorUpdates == [ status |-> "error", errorMsg |-> ErrorMsg ]

\* variant: the guard on analyzingDocId is missing
processQueueIsBusy_NoGuard(adi) == FALSE

\* if (analyzingDocId) return
processQueueIsBusy(adi) == adi # NoDoc

\* variant: the last pending item is taken
nextDoc_Last(q) ==
    LET pend == { i \in 1..Len(q) : q[i].status = "pending" }
    IN  IF pend = {} THEN 0 ELSE Max(pend)

\* queue.find(d => d.status === 'pending'): its index, 0 for undefined
nextDoc(q) ==
    LET pend == { i \in 1..Len(q) : q[i].status = "pending" }
    IN  IF pend = {} THEN 0 ELSE Min(pend)

\* The effect on [queue, analyzingDocId, usersList]: React runs processQueue
\* after every render in which one of them changed, so every handler below
\* ends with it.  q, adi, users and tasks are the values the handler leaves.
processQueue(q, adi, users, tasks) ==
    IF processQueueIsBusy(adi) \/ nextDoc(q) = 0
    THEN /\ queue' = q
         /\ analyzingDocId' = adi
         /\ running' = tasks
         /\ started' = started
    ELSE LET d == q[nextDoc(q)]
         IN  /\ analyzingDocId' = d.id
             /\ queue' = updateDoc(q, d.id, [status |-> "analyzing"])
             /\ running' = tasks \cup { [docId |-> d.id, file |-> d.file,
                                          users |-> users] }
             /\ started' = Append(started, d.id)

\* the FileLists the user can drop or select
Batches == UNION { [1..n -> QueueFileIds] : n \in 1..MaxBatch }

\* Array.from(files).filter(f => f.type === 'application/pdf')
pdfsOf(batch) == SelectSeq(batch, LAMBDA f : Files[f].type = PdfType)

handleFiles(batch) ==
    LET pdfs    == pdfsOf(batch)
        newDocs == [ i \in 1..Len(pdfs) |->
                       newQueuedDocument(nextId + i - 1, pdfs[i], usersList) ]
    IN  /\ Len(pdfs) > 0
        /\ nextId + Len(pdfs) - 1 <= MaxFiles
        /\ nextId' = nextId + Len(pdfs)
        /\ processQueue(queue \o newDocs, analyzingDocId, usersList, running)
        /\ UNCHANGED << usersList, timers, removedPending, edits, userChanges, outsideQueue >>

\* the fields DocumentCard lets the user edit, with the values tried here
Updates(d, users) ==
    { [title |-> <<"X">>], [period |-> << >>], [amount |-> <<"9">>],
      [docType |-> "Bonus"], [isManualEntry |-> ~d.isManualEntry],
      [manualName |-> "Kofi"], [manualEmail |-> "kofi@x"] }
    \cup { [selectedUserId |-> users[i].id] : i \in 1..Len(users) }

\* DocumentCard renders the form only for an item that is neither analyzing
\* nor pending
handleUpdate(i, updates) ==
    /\ queue[i].status \notin {"analyzing", "pending"}
    /\ edits < MaxEdits
    /\ edits' = edits + 1
    /\ processQueue(updateDoc(queue, queue[i].id, updates), analyzingDocId,
                    usersList, running)
    /\ UNCHANGED << usersList, timers, nextId, removedPending, userChanges, outsideQueue >>

\* DocumentCard renders the remove button for every item but an analyzing one
handleRemove(i) ==
    /\ queue[i].status # "analyzing"
    /\ removedPending' = IF queue[i].status = "pending"
                         THEN removedPending \cup {queue[i].id}
                         ELSE removedPending
    /\ processQueue(removeDoc(queue, queue[i].id), analyzingDocId,
                    usersList, running)
    /\ UNCHANGED << usersList, timers, nextId, edits, userChanges, outsideQueue >>

\* the onSnapshot listener (or one of its fallbacks) calls setUsersList
usersSnapshot(users) ==
    /\ userChanges < MaxUserChanges
    /\ users # usersList
    /\ userChanges' = userChanges + 1
    /\ usersList' = users
    /\ processQueue(queue, analyzingDocId, users, running)
    /\ UNCHANGED << timers, nextId, removedPending, edits, outsideQueue >>

\* variant: analyzingDocId is cleared at once, without the timer
docIdAfterAnalysis_Cleared(adi) == NoDoc

\* the finally block of processQueue leaves analyzingDocId as it is: only the
\* callback of its timer clears it
docIdAfterAnalysis(adi) == adi

\* analyzeFile is a function of the file and of the usersList of its closure;
\* its values are tabulated once
AllUserLists == UserLists \cup {NoUsers}

analysisOf == [ f \in FileIds |-> [ u \in AllUserLists |-> analyzeFile(Files[f], u) ] ]

\* analyzeFile reaches the setQueue call of its try block; the finally block
\* of processQueue then starts the settle timer
analyzeFileSucceeds(task) ==
    LET res == analysisOf[task.file][task.users]
    IN  /\ ~res.threw
        /\ timers' = timers + 1
        /\ processQueue(updateDoc(queue, task.docId, successUpdates(res)),
                        docIdAfterAnalysis(analyzingDocId), usersList,
                        running \ {task})
        /\ UNCHANGED << usersList, nextId, removedPending, edits, userChanges, outsideQueue >>

\* variant: the settle timer is started only after a successful analysis
analyzeFileFails_NoTimer(task) ==
    LET res == analysisOf[task.file][task.users]
    IN  /\ res.threw
        /\ timers' = timers
        /\ processQueue(updateDoc(queue, task.docId, errorUpdates),
                        docIdAfterAnalysis(analyzingDocId), usersList,
                        running \ {task})
        /\ UNCHANGED << usersList, nextId, removedPending, edits, userChanges, outsideQueue >>

\* analyzeFile reaches its catch block
analyzeFileFails(task) ==
    LET res == analysisOf[task.file][task.users]
    IN  /\ res.threw
        /\ timers' = timers + 1
        /\ processQueue(updateDoc(queue, task.docId, errorUpdates),
                        docIdAfterAnalysis(analyzingDocId), usersList,
                        running \ {task})
        /\ UNCHANGED << usersList, nextId, removedPending, edits, userChanges, outsideQueue >>

\* setTimeout(() => setAnalyzingDocId(null), 500) fires
settleTimerFires ==
    /\ timers > 0
    /\ timers' = timers - 1
    /\ processQueue(queue, NoDoc, usersList, running)
    /\ UNCHANGED << usersList, nextId, removedPending, edits, userChanges, outsideQueue >>

\* the closure of a handleBulkUpload call that has not been made
NoBatch == [docs |-> << >>, users |-> NoUsers]

\* the page as it is mounted: the upload button was never clicked
NotSubmitting ==
    /\ isSubmitting = FALSE
    /\ uploadComplete = FALSE
    /\ successCount = 0
    /\ closure = NoBatch
    /\ cursor = 0
    /\ stage = "idle"
    /\ localSuccessCount = 0
    /\ alerts = << >>
    /\ documents = << >>
    /\ attempted = << >>
    /\ writeLog = << >>
    /\ submits = 0

\* the role of a users/{uid} document that does not exist
NoRole == << >>

\* currentUser is null: the Login page is shown
NoUser == [id |-> 0, role |-> NoRole, avatarUrl |-> FALSE]

\* the four error states of the Login forms, all empty
NoErrors == [name |-> "", email |-> "", password |-> "", form |-> ""]

\* no interval callback has run
NoCheck == [limitPassed |-> FALSE, logout |-> FALSE]

\* App as it is mounted with nobody signed in and no account created
\* no AllDocuments page is followed
NoDocumentsPage ==
    /\ storedDocuments = << >>
    /\ pageDocuments = << >>
    /\ selectedIds = << >>
    /\ isBulkProcessing = << >>
    /\ fetching = << >>
    /\ committing = << >>
    /\ downloading = << >>

NotSignedIn ==
    /\ authUsers = << >>
    /\ usersCollection = << >>
    /\ signups = << >>
    /\ currentUser = NoUser
    /\ currentView = "DASHBOARD"
    /\ view = "login"
    /\ errors = NoErrors
    /\ showTimeoutWarning = FALSE
    /\ sinceActivity = 0
    /\ sinceEvent = 0
    /\ sinceCheck = 0
    /\ signingOut = 0
    /\ lastCheck = NoCheck

\* a PDF of one page
onePage(name, text) ==
    [name |-> name, type |-> PdfType, pages |-> << text >>, failsAt |-> 0]

\* no analyzeFile call is looked at on its own
NoSample == [file |-> onePage(<< >>, << >>), users |-> NoUsers]

Init ==
    /\ queue = << >>
    /\ usersList = NoUsers
    /\ analyzingDocId = NoDoc
    /\ running = {}
    /\ timers = 0
    /\ nextId = 1
    /\ started = << >>
    /\ removedPending = {}
    /\ edits = 0
    /\ userChanges = 0
    /\ sample = NoSample
    /\ analysis = << >>
    /\ NotSubmitting
    /\ NoDocumentsPage
    /\ NotSignedIn

Next ==
    \/ \E batch \in Batches : handleFiles(batch)
    \/ \E i \in 1..Len(queue) : \E u \in Updates(queue[i], usersList) : handleUpdate(i, u)
    \/ \E i \in 1..Len(queue) : handleRemove(i)
    \/ \E users \in UserLists : usersSnapshot(users)
    \/ \E task \in running : analyzeFileSucceeds(task)
    \/ \E task \in running : analyzeFileFails(task)
    \/ settleTimerFires

Spec == Init /\ [][Next]_vars

\* one file, any of the files, queued once
NextExtract ==
    \/ \E f \in FileIds : nextId = 1 /\ handleFiles(<<f>>)
    \/ \E i \in 1..Len(queue) : \E u \in Updates(queue[i], usersList) : handleUpdate(i, u)
    \/ \E i \in 1..Len(queue) : handleRemove(i)
    \/ \E users \in UserLists : usersSnapshot(users)
    \/ \E task \in running : analyzeFileSucceeds(task)
    \/ \E task \in running : analyzeFileFails(task)
    \/ settleTimerFires

ExtractSpec == Init /\ [][NextExtract]_vars

\* every PDF parse eventually returns or throws, and every timer fires
Fairness ==
    /\ WF_vars(\E task \in running : analyzeFileSucceeds(task))
    /\ WF_vars(\E task \in running : analyzeFileFails(task))
    /\ WF_vars(settleTimerFires)

FairSpec == Spec /\ Fairness

(***************************************************************************)
(* One call of analyzeFile, for a file and a usersList drawn from the      *)
(* samples below                                                           *)
(***************************************************************************)
StubPdf == <<"s","t","u","b",".","p","d","f">>

\* "GHC 2,500.00"
Ghc2500 == <<"G","H","C"," ","2",",","5","0","0",".","0","0">>

\* what comes before the label: nothing, a line with its own amount, another
\* label with its amount, an amount directly before the label
AmountPrefixes ==
    { << >>,
      <<"B","a","s","i","c"," ","1","0","0",".","0","0"," ">>,
      <<"T","a","k","e"," ","H","o","m","e"," ","5",".","0","0"," ">>,
      <<"9",".","0","0"," ">> }

\* the labels as documents spell them
AmountLabels ==
    { <<"N","e","t"," ","P","a","y">>,
      <<"n","e","t"," ","a","m","o","u","n","t">>,
      <<"T","a","k","e"," "," ","H","o","m","e">>,
      <<"N","e","t","P","a","y","a","b","l","e">> }

\* what stands between the label and the amount: digits never
AmountFillers ==
    { <<" ">>,
      <<":"," ","$">>,
      <<" ",".",".","."," ">>,
      <<" ","Y","T","D"," ">> }

\* what follows the amount
AmountTails ==
    { << >>,
      <<" ","N","e","t"," ","P","a","y"," ","Y","T","D">> }

AmountTexts ==
    { c[1] \o c[2] \o c[3] \o Ghc2500 \o c[4] :
        c \in AmountPrefixes \X AmountLabels \X AmountFillers \X AmountTails }

AmountSamples ==
    { [file |-> onePage(StubPdf, t), users |-> NoUsers] : t \in AmountTexts }

\* file names with one month named by a word of its own and one year
PeriodNames ==
    { <<"s","l","i","p","_","m","a","r","c","h","_","2","0","2","4",".","p","d","f">>,
      <<"P","A","Y","_","M","A","R","_","2","0","3","1",".","p","d","f">>,
      <<"p","a","y","s","l","i","p","-","2","0","2","0","-","D","e","c","e","m","b","e","r",".","p","d","f">>,
      <<"m","a","y"," ","2","0","3","9",".","p","d","f">> }

\* document texts: without a month, with a full month name, with an
\* abbreviation
PeriodTexts ==
    { << >>,
      <<"P","a","y"," ","s","l","i","p">>,
      <<"J","a","n","u","a","r","y"," ","b","o","n","u","s"," ","2","0","2","1">>,
      <<"P","a","i","d"," ","3"," ","F","E","B"," ","2","0","2","2">> }

PeriodSamples ==
    { [file |-> onePage(c[1], c[2]), users |-> NoUsers] :
        c \in PeriodNames \X PeriodTexts }

JaneDoePayslipPdf ==
    <<"J","A","N","E","_","D","O","E","_","P","A","Y","S","L","I","P",".","p","d","f">>

\* file names: a display name written with underscores, written as it is
\* displayed, absent
EmployeeNames ==
    { JaneDoePayslipPdf,
      <<"J","a","n","e"," ","D","o","e"," ","p","a","y","s","l","i","p",".","p","d","f">>,
      StubPdf }

\* document texts without and with a display name
EmployeeTexts ==
    { <<"S","a","l","a","r","y"," ","a","d","v","i","c","e">>,
      <<"P","r","e","p","a","r","e","d"," ","f","o","r"," ","J","a","n","e"," ","D","o","e">> }

EmployeeSamples ==
    { [file |-> onePage(c[1], c[2]), users |-> c[3]] :
        c \in EmployeeNames \X EmployeeTexts \X {NoUsers, OnlyCurrentUser, JaneAndJaneDoe} }

\* document texts in which three letters of a month stand inside a longer
\* word, or as a word of their own
AbbrevTexts ==
    { <<"T","a","x"," ","d","e","c","l","a","r","a","t","i","o","n"," ","f","o","r","m">>,
      <<"V","i","d","e","o"," ","c","o","d","e","c"," ","l","i","c","e","n","c","e">>,
      <<"P","a","i","d"," ","3"," ","d","e","c">> }

AbbrevSamples ==
    { [file |-> onePage(StubPdf, t), users |-> NoUsers] : t \in AbbrevTexts }

Samples == AmountSamples \cup PeriodSamples \cup EmployeeSamples \cup AbbrevSamples

\* await analyzeFile(docId, file) with the usersList of the sample
analyzeSample ==
    /\ analysis = << >>
    /\ analysis' = << analyzeFile(sample.file, sample.users) >>
    /\ UNCHANGED << queueVars, sample, submitVars, appVars, docsVars >>

InitAnalyze ==
    /\ queue = << >>
    /\ usersList = NoUsers
    /\ analyzingDocId = NoDoc
    /\ running = {}
    /\ timers = 0
    /\ nextId = 1
    /\ started = << >>
    /\ removedPending = {}
    /\ edits = 0
    /\ userChanges = 0
    /\ sample \in Samples
    /\ analysis = << >>
    /\ NotSubmitting
    /\ NoDocumentsPage
    /\ NotSignedIn

NextAnalyze == analyzeSample

AnalyzeSpec == InitAnalyze /\ [][NextAnalyze]_vars

(***************************************************************************)
(* handleBulkUpload.  The handler runs from one await to the next: the     *)
(* click runs it up to its first await, and each promise that settles runs *)
(* it up to the next one or to its end.                                    *)
(***************************************************************************)
\* reviewed documents in the queue when the upload button is first shown
MaxReviewed == 2

\* clicks on the upload button in the whole run
MaxSubmits == 2

\* 950 * 1024
MaxInlineBytes == 972800

\* docItem.file.size
fileSize == [ janeDoe |-> 84211, ytd |-> 20480, march |-> 1300000,
              broken |-> 512, partial |-> 972800, note |-> 12 ]

\* docItem.file.size > 950 * 1024
oversized(d) == fileSize[d.file] > MaxInlineBytes

\* the filter of handleBulkUpload
\* variant: only the docItems without a selected employee are invalid
invalidDocs_OnlyUnselected(q) ==
    SelectSeq(q, LAMBDA d : ~d.isManualEntry /\ d.selectedUserId = "")

invalidDocs(q) ==
    SelectSeq(q, LAMBDA d :
        \/ (~d.isManualEntry /\ d.selectedUserId = "")
        \/ (d.isManualEntry /\ (d.manualName = "" \/ d.manualEmail = "")))

\* usersList.find(u => u.id === docItem.selectedUserId): << >> for undefined
selectedUser(users, d) ==
    LET hits == { k \in 1..Len(users) : users[k].id = d.selectedUserId }
    IN  IF hits = {} THEN << >> ELSE << users[Min(hits)] >>

\* !docItem.isManualEntry && selectedUser
savesToDatabase(users, d) == ~d.isManualEntry /\ selectedUser(users, d) # << >>

\* the record addDoc writes to users/{employeeId}/documents; of is the docItem
\* it was built from
newDoc(users, d) ==
    [ of |-> d.id,
      title |-> IF d.title # << >> THEN d.title ELSE Files[d.file].name,
      employeeId |-> selectedUser(users, d)[1].id,
      payrollPeriod |-> IF d.period # << >> THEN d.period ELSE <<"N","/","A">>,
      type |-> d.docType ]

\* the loop skips the docItems over the size limit: the index of the first
\* one at or after from that it does not skip, Len(docs) + 1 when there is none
nextCursor(docs, from) ==
    LET kept == { k \in from..Len(docs) : ~oversized(docs[k]) }
    IN  IF kept = {} THEN Len(docs) + 1 ELSE Min(kept)

\* the "Skipping ..." alerts for the docItems from from to to - 1
skipAlerts(docs, from, to) ==
    [ k \in 1..(to - from) |-> [kind |-> "skipping", doc |-> docs[from + k - 1].id] ]

\* the ids of the docItems from from to to
idsFrom(docs, from, to) == [ k \in 1..(to - from + 1) |-> docs[from + k - 1].id ]

\* the handler goes on with the docItem at to, or, when to is past the end,
\* leaves the loop: with a count above 0 it shows the success card and clears
\* the queue, else it alerts; the finally block resets isSubmitting
loopReaches(docs, to, count, shown, taken) ==
    IF to <= Len(docs)
    THEN /\ cursor' = to
         /\ stage' = "convert"
         /\ attempted' = taken
         /\ alerts' = shown
         /\ localSuccessCount' = count
         /\ isSubmitting' = TRUE
         /\ UNCHANGED << uploadComplete, successCount, queue, analyzingDocId,
                         running, started >>
    ELSE /\ cursor' = 0
         /\ stage' = "idle"
         /\ attempted' = taken
         /\ localSuccessCount' = count
         /\ isSubmitting' = FALSE
         /\ IF count > 0
            THEN /\ successCount' = count
                 /\ uploadComplete' = TRUE
                 /\ alerts' = shown
                 /\ processQueue(<< >>, analyzingDocId, usersList, running)
            ELSE /\ alerts' = Append(shown, [kind |-> "none", doc |-> NoDoc])
                 /\ UNCHANGED << uploadComplete, successCount, queue,
                                 analyzingDocId, running, started >>

\* the loop goes on at index from
continueLoop(docs, from, count, shown, taken) ==
    loopReaches(docs, nextCursor(docs, from), count,
                shown \o skipAlerts(docs, from, nextCursor(docs, from)),
                taken \o idsFrom(docs, from,
                                 IF nextCursor(docs, from) <= Len(docs)
                                 THEN nextCursor(docs, from) ELSE Len(docs)))

\* the click on the upload button, which is rendered while the queue is not
\* empty and is disabled while isSubmitting
handleBulkUpload ==
    /\ ~isSubmitting
    /\ ~uploadComplete
    /\ Len(queue) > 0
    /\ submits < MaxSubmits
    /\ submits' = submits + 1
    /\ IF invalidDocs(queue) # << >>
       THEN /\ alerts' = Append(alerts, [kind |-> "select", doc |-> NoDoc])
            /\ UNCHANGED << isSubmitting, uploadComplete, successCount, closure,
                            cursor, stage, localSuccessCount, attempted, queue,
                            analyzingDocId, running, started >>
       ELSE /\ closure' = [docs |-> queue, users |-> usersList]
            /\ continueLoop(queue, 1, 0, alerts, << >>)
    /\ UNCHANGED << documents, writeLog, usersList, timers, nextId,
                    removedPending, edits, userChanges, analysisVars, docsVars, appVars >>

\* await convertFileToBase64(docItem.file) resolves (ok) or rejects
convertFileToBase64Settles(ok) ==
    /\ stage = "convert"
    /\ LET d == closure.docs[cursor]
       IN  IF ok /\ savesToDatabase(closure.users, d)
           THEN /\ stage' = "addDoc"
                /\ writeLog' = Append(writeLog, [event |-> "begin", doc |-> d.id])
                /\ UNCHANGED << isSubmitting, uploadComplete, successCount,
                                cursor, localSuccessCount, alerts, attempted,
                                queue, analyzingDocId, running, started >>
           ELSE /\ continueLoop(closure.docs, cursor + 1, localSuccessCount,
                                IF ok THEN alerts
                                ELSE Append(alerts, [kind |-> "process", doc |-> d.id]),
                                attempted)
                /\ UNCHANGED writeLog
    /\ UNCHANGED << closure, documents, submits, usersList, timers, nextId,
                    removedPending, edits, userChanges, analysisVars, docsVars, appVars >>

\* the error codes with which addDoc rejects
DbErrors == {"resource-exhausted", "permission-denied"}

\* await addDoc(...) resolves
addDocResolves ==
    /\ stage = "addDoc"
    /\ stage' = "updateDoc"
    /\ documents' = Append(documents, newDoc(closure.users, closure.docs[cursor]))
    /\ UNCHANGED << isSubmitting, uploadComplete, successCount, closure, cursor,
                    localSuccessCount, alerts, attempted, writeLog, submits,
                    queueVars, analysisVars, docsVars, appVars >>

\* variant: the rejection is not caught in the loop body and reaches the
\* catch block of the handler
addDocRejects_Aborts(code) ==
    /\ stage = "addDoc"
    /\ stage' = "idle"
    /\ cursor' = 0
    /\ isSubmitting' = FALSE
    /\ writeLog' = Append(writeLog, [event |-> "end", doc |-> closure.docs[cursor].id])
    /\ alerts' = Append(alerts, [kind |-> "unexpected", doc |-> NoDoc])
    /\ UNCHANGED << uploadComplete, successCount, closure, localSuccessCount,
                    documents, attempted, submits, queueVars, analysisVars, docsVars, appVars >>

\* await addDoc(...) rejects with this code
addDocRejects(code) ==
    /\ stage = "addDoc"
    /\ LET d == closure.docs[cursor]
       IN  /\ writeLog' = Append(writeLog, [event |-> "end", doc |-> d.id])
           /\ continueLoop(closure.docs, cursor + 1, localSuccessCount,
                           IF code = "resource-exhausted"
                           THEN Append(alerts, [kind |-> "save", doc |-> d.id])
                           ELSE alerts,
                           attempted)
    /\ UNCHANGED << closure, documents, submits, usersList, timers, nextId,
                    removedPending, edits, userChanges, analysisVars, docsVars, appVars >>

\* await updateDoc(..., { docCount: increment(1) }) resolves or rejects: the
\* rejection is ignored
updateDocSettles ==
    /\ stage = "updateDoc"
    /\ writeLog' = Append(writeLog, [event |-> "end", doc |-> closure.docs[cursor].id])
    /\ continueLoop(closure.docs, cursor + 1, localSuccessCount + 1, alerts,
                    attempted)
    /\ UNCHANGED << closure, documents, submits, usersList, timers, nextId,
                    removedPending, edits, userChanges, analysisVars, docsVars, appVars >>

\* the "Upload More" button of the success card
uploadMore ==
    /\ uploadComplete
    /\ uploadComplete' = FALSE
    /\ successCount' = 0
    /\ UNCHANGED << isSubmitting, closure, cursor, stage, localSuccessCount,
                    alerts, documents, attempted, writeLog, submits, queueVars,
                    analysisVars, docsVars, appVars >>

\* the files of the reviewed documents: one under and one over the size limit
SubmitFileIds == {"ytd", "march"}

SubmitUserLists == {OnlyCurrentUser, JaneAndJaneDoe}

\* what the user did with a card after its analysis: nothing, picked an
\* employee from the list, entered the details of a manual employee, entered
\* the name of a manual employee only
ReviewModes == {"asAnalysed", "picked", "manual", "manualNoEmail"}

reviewEdits(mode, users) ==
    CASE mode = "asAnalysed" -> [docType |-> PayStub]
      [] mode = "picked"     -> [selectedUserId |-> users[Len(users)].id]
      [] mode = "manual"     -> [isManualEntry |-> TRUE, manualName |-> "Kofi",
                                 manualEmail |-> "kofi@x"]
      [] mode = "manualNoEmail" -> [isManualEntry |-> TRUE, manualName |-> "Kofi",
                                    manualEmail |-> ""]

\* a document queued, analysed and reviewed while users was the usersList
reviewedDoc(id, f, mode, users) ==
    merge(merge(newQueuedDocument(id, f, users),
                successUpdates(analysisOf[f][users])),
          reviewEdits(mode, users))

ReviewedQueues(users) ==
    UNION { { [ i \in 1..n |-> reviewedDoc(i, c[i][1], c[i][2], users) ] :
                c \in [1..n -> SubmitFileIds \X ReviewModes] } :
            n \in 1..MaxReviewed }

InitSubmit ==
    /\ usersList \in SubmitUserLists
    /\ queue \in ReviewedQueues(usersList)
    /\ analyzingDocId = NoDoc
    /\ running = {}
    /\ timers = 0
    /\ nextId = Len(queue) + 1
    /\ started = [ i \in 1..Len(queue) |-> i ]
    /\ removedPending = {}
    /\ edits = 0
    /\ userChanges = 0
    /\ sample = NoSample
    /\ analysis = << >>
    /\ NotSubmitting
    /\ NoDocumentsPage
    /\ NotSignedIn

NextSubmit ==
    \/ handleBulkUpload
    \/ \E ok \in BOOLEAN : convertFileToBase64Settles(ok)
    \/ addDocResolves
    \/ \E code \in DbErrors : addDocRejects(code)
    \/ updateDocSettles
    \/ uploadMore
    \/ \E i \in 1..Len(queue) : handleRemove(i)
    \/ \E users \in UserLists : usersSnapshot(users)

SubmitSpec == InitSubmit /\ [][NextSubmit]_vars

\* files dropped on the page in the whole run, when the queue and the
\* submission run together
MaxPageFiles == 2

\* the users of the directory: one whose name makes analyzeFile throw is
\* among them
PageUserLists == SubmitUserLists \cup {OneMalformedUser}

\* the page as it is mounted: an empty queue, and the users of the directory
InitPage ==
    /\ queue = << >>
    /\ usersList \in PageUserLists
    /\ analyzingDocId = NoDoc
    /\ running = {}
    /\ timers = 0
    /\ nextId = 1
    /\ started = << >>
    /\ removedPending = {}
    /\ edits = 0
    /\ userChanges = 0
    /\ sample = NoSample
    /\ analysis = << >>
    /\ NotSubmitting
    /\ NoDocumentsPage
    /\ NotSignedIn

\* the drop zone, the "Add more" input and the cards are rendered unless the
\* success card is shown; the upload button is rendered with them
NextPage ==
    \/ \E f \in SubmitFileIds :
          ~uploadComplete /\ nextId <= MaxPageFiles /\ handleFiles(<<f>>)
    \/ \E i \in 1..Len(queue) : ~uploadComplete /\ handleRemove(i)
    \/ \E task \in running : analyzeFileSucceeds(task)
    \/ \E task \in running : analyzeFileFails(task)
    \/ settleTimerFires
    \/ handleBulkUpload
    \/ \E ok \in BOOLEAN : convertFileToBase64Settles(ok)
    \/ addDocResolves
    \/ \E code \in DbErrors : addDocRejects(code)
    \/ updateDocSettles
    \/ uploadMore

PageSpec == InitPage /\ [][NextPage]_vars

(***************************************************************************)
(* Sign-up and sign-in of Login, and the session of App: navigation,       *)
(* rendering and sign-out                                                  *)
(***************************************************************************)
Admin == <<"A","d","m","i","n">>

Employee == <<"E","m","p","l","o","y","e","e">>

\* the ViewState enum
ViewStates == {"DASHBOARD", "UPLOAD", "USERS", "DOCUMENTS", "CONCERNS"}

\* 'admin', the substring looked for in the lower-cased email
AdminWord == <<"a","d","m","i","n">>

\* the one address that is an administrator whatever it contains
SpecificAdmin == <<"i","n","f","o","t","e","c","h",".","p","e","a","d","a","t","o","@","g","m","a","i","l",".","c","o","m">>

\* val.trim()
trim(val) ==
    LET kept == { i \in 1..Len(val) : ~IsSpace(val[i]) }
    IN  IF kept = {} THEN << >> ELSE SubSeq(val, Min(kept), Max(kept))

\* /^[^\s@]+@[^\s@]+\.[^\s@]+$/.test(val)
matchesEmailPattern(val) ==
    \E a \in 2..Len(val) : \E d \in (a + 2)..(Len(val) - 1) :
        /\ val[a] = "@"
        /\ val[d] = "."
        /\ \A i \in 1..Len(val) : i # a => (~IsSpace(val[i]) /\ val[i] # "@")

validateEmail(val) ==
    IF val = << >> THEN "Email is required"
    ELSE IF ~matchesEmailPattern(val) THEN "Please enter a valid email address"
    ELSE ""

\* the shortest password a sign-up accepts
MinPasswordLength == 6

\* v is the form shown, the view state of Login
validatePassword(val, v) ==
    IF val = << >> THEN "Password is required"
    ELSE IF v = "signup" /\ Len(val) < MinPasswordLength
         THEN "Password must be at least 6 characters"
    ELSE ""

validateName(val) ==
    IF trim(val) = << >> THEN "Full name is required" ELSE ""

\* the role computed from the email address at sign-up, and again by the
\* fallback of onAuthStateChanged
initialRole(email) ==
    IF includes(toLowerCase(email), AdminWord) \/ toLowerCase(email) = SpecificAdmin
    THEN Admin
    ELSE Employee

\* no users/{uid} document
NoDocument == [email |-> << >>, role |-> NoRole]

\* Firebase Auth keeps the address of an account in lower case
accountOf(emailLower) ==
    { i \in 1..Len(authUsers) : authUsers[i].email = emailLower }

\* the accounts created in one run
MaxSignups == 2

\* what is typed into the forms
Names == { <<"A","m","a"," ","M","e","n","s","a","h">>, <<" "," ">> }

Emails == { <<"a","d","m","i","n","@","t","w","i","n","h","i","l","l",".","c","o","m">>, <<" ","H","R",".","A","d","m","i","n","@","t","w","i","n","h","i","l","l",".","c","o","m">>,
            <<"k","o","f","i","@","t","w","i","n","h","i","l","l",".","c","o","m">>, <<"i","n","f","o","t","e","c","h",".","p","e","a","d","a","t","o","@","g","m","a","i","l",".","c","o","m">>,
            <<"k","o","f","i",".","t","w","i","n","h","i","l","l",".","c","o","m">> }

Passwords == { <<"s","e","c","r","e","t","1">>, <<"1","2","3","4","5">> }

\* how createUserWithEmailAndPassword and setDoc end: both resolve, setDoc
\* rejects, createUserWithEmailAndPassword rejects for the network
SignupOutcomes == {"saved", "docError", "authError"}

\* what handleSignupSubmit computes from the three fields before any await
signupForm(name, email, password) ==
    [cleanEmail |-> trim(email),
     emailLower |-> toLowerCase(trim(email)),
     nameErr |-> validateName(trim(name)),
     emailErr |-> validateEmail(trim(email)),
     passErr |-> validatePassword(password, "signup"),
     initialRole |-> initialRole(trim(email))]

signupFormOf ==
    [ name \in Names |-> [ email \in Emails |-> [ password \in Passwords |->
        signupForm(name, email, password) ] ] ]

\* what handleLoginSubmit computes from the two fields before any await
loginForm(email, password) ==
    [emailLower |-> toLowerCase(trim(email)),
     emailErr |-> validateEmail(trim(email)),
     passErr |-> validatePassword(password, "login")]

loginFormOf ==
    [ email \in Emails |-> [ password \in Passwords |->
        loginForm(email, password) ] ]

\* the buttons that switch between the sign-in and the sign-up form
resetForm(newView) ==
    /\ currentUser = NoUser
    /\ view # newView
    /\ view' = newView
    /\ errors' = NoErrors
    /\ UNCHANGED << authUsers, usersCollection, signups, currentUser,
                    currentView, showTimeoutWarning, sinceActivity, sinceEvent,
                    sinceCheck, signingOut, lastCheck, queueVars, analysisVars, docsVars,
                    submitVars >>

\* the sign-up form is submitted
handleSignupSubmit(name, email, password, outcome) ==
    /\ currentUser = NoUser
    /\ view = "signup"
    /\ Len(signups) < MaxSignups
    /\ LET cleanEmail == signupFormOf[name][email][password].cleanEmail
           nameErr == signupFormOf[name][email][password].nameErr
           emailErr == signupFormOf[name][email][password].emailErr
           passErr == signupFormOf[name][email][password].passErr
       IN  IF nameErr # "" \/ emailErr # "" \/ passErr # ""
           THEN /\ errors' = [name |-> nameErr, email |-> emailErr,
                              password |-> passErr, form |-> ""]
                /\ UNCHANGED << authUsers, usersCollection, signups, view >>
           ELSE IF accountOf(signupFormOf[name][email][password].emailLower) # {}
           THEN /\ errors' = [NoErrors EXCEPT
                                 !.form = "User already exists. Please sign in"]
                /\ UNCHANGED << authUsers, usersCollection, signups, view >>
           ELSE IF outcome = "authError"
           THEN /\ errors' = [NoErrors EXCEPT !.form = "Failed to create account."]
                /\ UNCHANGED << authUsers, usersCollection, signups, view >>
           ELSE /\ authUsers' = Append(authUsers,
                                       [email |-> signupFormOf[name][email][password].emailLower,
                                        password |-> password,
                                        emailVerified |-> FALSE])
                /\ usersCollection' =
                       Append(usersCollection,
                              IF outcome = "saved"
                              THEN [email |-> cleanEmail,
                                    role |-> signupFormOf[name][email][password].initialRole]
                              ELSE NoDocument)
                /\ signups' =
                       Append(signups,
                              [email |-> cleanEmail,
                               role |-> IF outcome = "saved"
                                        THEN signupFormOf[name][email][password].initialRole
                                        ELSE NoRole])
                /\ view' = "verify_email"
                /\ errors' = NoErrors
    /\ UNCHANGED << currentUser, currentView, showTimeoutWarning, sinceActivity,
                    sinceEvent, sinceCheck, signingOut, lastCheck, queueVars,
                    analysisVars, docsVars, submitVars >>

\* the link of the verification email is followed
emailVerification(uid) ==
    /\ ~authUsers[uid].emailVerified
    /\ authUsers' = [authUsers EXCEPT ![uid].emailVerified = TRUE]
    /\ UNCHANGED << usersCollection, signups, currentUser, currentView, view,
                    errors, showTimeoutWarning, sinceActivity, sinceEvent,
                    sinceCheck, signingOut, lastCheck, queueVars, analysisVars, docsVars,
                    submitVars >>

\* a role spelled 'admin' in any case other than UserRole.ADMIN
hasLowerCaseAdminRole(role) == role # Admin /\ toLowerCase(role) = AdminWord

\* App.tsx 71-89: the role read from users/{uid}, raised to Admin for an
\* administrator's address when the write is accepted
roleAfterUpgrade(data, emailLower, writeOk) ==
    IF /\ data.role # Admin
       /\ \/ hasLowerCaseAdminRole(data.role)
          \/ emailLower = SpecificAdmin
          \/ includes(emailLower, AdminWord)
       /\ writeOk
    THEN Admin
    ELSE data.role

\* variant: the callback does not look at emailVerified
isVerified_Any(account) == TRUE

\* firebaseUser && firebaseUser.emailVerified, for a user who is present
isVerified(account) == account.emailVerified

\* the callback of onAuthStateChanged for the account uid that has just
\* signed in; readOk and writeOk say whether getDoc and setDoc are accepted
onAuthStateChanged(uid, readOk, writeOk) ==
    LET data == usersCollection[uid]
        account == authUsers[uid]
        emailLower == toLowerCase(IF data.email # << >> THEN data.email
                                  ELSE account.email)
    IN  IF ~isVerified(account)
        THEN /\ currentUser' = NoUser
             /\ UNCHANGED << usersCollection, sinceActivity, sinceEvent, sinceCheck >>
        ELSE
        /\ IF readOk /\ data # NoDocument
           THEN /\ currentUser' =
                       [id |-> uid,
                        role |-> roleAfterUpgrade(data, emailLower, writeOk),
                        avatarUrl |-> FALSE]
                /\ usersCollection' =
                       [usersCollection EXCEPT
                           ![uid].role = roleAfterUpgrade(data, emailLower, writeOk)]
           ELSE /\ currentUser' = [id |-> uid,
                                   role |-> initialRole(account.email),
                                   avatarUrl |-> FALSE]
                /\ usersCollection' =
                       IF writeOk
                       THEN [usersCollection EXCEPT
                                ![uid] = [email |-> account.email,
                                          role |-> initialRole(account.email)]]
                       ELSE usersCollection
        /\ sinceActivity' = 0
        /\ sinceEvent' = 0
        /\ sinceCheck' = 0

\* the sign-in form is submitted; after signInWithEmailAndPassword the
\* callback of onAuthStateChanged runs; Login signs an unverified user out
\* again and shows the verification notice, else handleLogin resets the view
handleLoginSubmit(email, password, readOk, writeOk) ==
    /\ currentUser = NoUser
    /\ view = "login"
    /\ LET emailErr == loginFormOf[email][password].emailErr
           passErr == loginFormOf[email][password].passErr
           found == { i \in accountOf(loginFormOf[email][password].emailLower) :
                          authUsers[i].password = password }
       IN  IF emailErr # "" \/ passErr # ""
           THEN /\ errors' = [NoErrors EXCEPT !.email = emailErr,
                                               !.password = passErr]
                /\ UNCHANGED << usersCollection, currentUser, currentView, view,
                                sinceActivity, sinceEvent, sinceCheck >>
           ELSE IF found = {}
           THEN /\ errors' = [NoErrors EXCEPT
                                 !.form = "Email or password is incorrect"]
                /\ UNCHANGED << usersCollection, currentUser, currentView, view,
                                sinceActivity, sinceEvent, sinceCheck >>
           ELSE /\ onAuthStateChanged(Min(found), readOk, writeOk)
                /\ errors' = NoErrors
                /\ IF ~authUsers[Min(found)].emailVerified
                   THEN /\ view' = "verify_email"
                        /\ UNCHANGED currentView
                   ELSE /\ currentView' = "DASHBOARD"
                        /\ UNCHANGED view
    /\ UNCHANGED << authUsers, signups, showTimeoutWarning, signingOut,
                    lastCheck, queueVars, analysisVars, docsVars, submitVars >>

\* Sidebar and Dashboard call onNavigate with a view
handleNavigate(v) ==
    /\ currentUser # NoUser
    /\ currentView' = v
    /\ UNCHANGED << authUsers, usersCollection, signups, currentUser, view,
                    errors, showTimeoutWarning, sinceActivity, sinceEvent,
                    sinceCheck, signingOut, lastCheck, queueVars, analysisVars, docsVars,
                    submitVars >>

\* variant: the two administrator routes are not protected
renderContent_Unprotected(user, v) ==
    IF user = NoUser THEN "Login"
    ELSE CASE v = "DASHBOARD" -> "Dashboard"
           [] v = "UPLOAD" -> "UploadDocuments"
           [] v = "USERS" -> "ManageUsers"
           [] v = "DOCUMENTS" -> "AllDocuments"
           [] v = "CONCERNS" -> "Concerns"
           [] OTHER -> "Dashboard"

\* the page App renders: Login while nobody is signed in, else renderContent
renderContent(user, v) ==
    IF user = NoUser THEN "Login"
    ELSE CASE v = "DASHBOARD" -> "Dashboard"
           [] v = "UPLOAD" -> IF user.role # Admin THEN "Dashboard"
                              ELSE "UploadDocuments"
           [] v = "USERS" -> IF user.role # Admin THEN "Dashboard"
                             ELSE "ManageUsers"
           [] v = "DOCUMENTS" -> "AllDocuments"
           [] v = "CONCERNS" -> "Concerns"
           [] OTHER -> "Dashboard"

\* the signOut calls that may be pending at once
MaxPendingSignOuts == 1

\* the Log Out buttons: handleLogout runs up to await signOut(auth)
handleLogout ==
    /\ currentUser # NoUser
    /\ signingOut < MaxPendingSignOuts
    /\ signingOut' = signingOut + 1
    /\ UNCHANGED << authUsers, usersCollection, signups, currentUser,
                    currentView, view, errors, showTimeoutWarning,
                    sinceActivity, sinceEvent, sinceCheck, lastCheck, queueVars,
                    analysisVars, docsVars, submitVars >>

\* await signOut(auth) resolves (ok) or rejects; Login is mounted anew when
\* currentUser becomes null
signOutSettles(ok) ==
    /\ signingOut > 0
    /\ signingOut' = signingOut - 1
    /\ IF ok
       THEN /\ currentUser' = NoUser
            /\ currentView' = "DASHBOARD"
            /\ showTimeoutWarning' = FALSE
            /\ view' = "login"
            /\ errors' = NoErrors
       ELSE UNCHANGED << currentUser, currentView, showTimeoutWarning, view,
                         errors >>
    /\ UNCHANGED << authUsers, usersCollection, signups, sinceActivity,
                    sinceEvent, sinceCheck, lastCheck, queueVars, analysisVars, docsVars,
                    submitVars >>

\* a new avatar is chosen in the Sidebar; the new currentUser object makes
\* the inactivity effect run again, which sets a new interval
handleProfileUpdate ==
    /\ currentUser # NoUser
    /\ currentUser' = [currentUser EXCEPT !.avatarUrl = TRUE]
    /\ sinceCheck' = 0
    /\ UNCHANGED << authUsers, usersCollection, signups, currentView, view,
                    errors, showTimeoutWarning, sinceActivity, sinceEvent,
                    signingOut, lastCheck, queueVars, analysisVars, docsVars, submitVars >>

\* Make Admin / Revoke Admin of Manage Users, for another user's document
toggleUserRole(target) ==
    /\ renderContent(currentUser, currentView) = "ManageUsers"
    /\ usersCollection[target] # NoDocument
    /\ target # currentUser.id
    /\ usersCollection' =
           [usersCollection EXCEPT
               ![target].role = IF usersCollection[target].role = Admin
                                THEN Employee ELSE Admin]
    /\ UNCHANGED << authUsers, signups, currentUser, currentView, view, errors,
                    showTimeoutWarning, sinceActivity, sinceEvent, sinceCheck,
                    signingOut, lastCheck, queueVars, analysisVars, docsVars, submitVars >>

\* an account made before this run, its role spelled in lower case
LegacyAccount ==
    [email |-> <<"k","o","f","i","@","t","w","i","n","h","i","l","l",".","c","o","m">>, password |-> <<"s","e","c","r","e","t","1">>,
     emailVerified |-> TRUE]

LegacyDocument == [email |-> <<"k","o","f","i","@","t","w","i","n","h","i","l","l",".","c","o","m">>, role |-> <<"a","d","m","i","n">>]

\* the accounts and documents App can find when it is mounted
Directories ==
    { [auth |-> << >>, docs |-> << >>],
      [auth |-> << LegacyAccount >>, docs |-> << LegacyDocument >>] }

\* the upload page is not looked at
NoUploads ==
    /\ queue = << >>
    /\ usersList = NoUsers
    /\ analyzingDocId = NoDoc
    /\ running = {}
    /\ timers = 0
    /\ nextId = 1
    /\ started = << >>
    /\ removedPending = {}
    /\ edits = 0
    /\ userChanges = 0
    /\ sample = NoSample
    /\ analysis = << >>
    /\ NotSubmitting

InitApp ==
    /\ NoUploads
    /\ NoDocumentsPage
    /\ \E dir \in Directories :
           /\ authUsers = dir.auth
           /\ usersCollection = dir.docs
    /\ signups = << >>
    /\ currentUser = NoUser
    /\ currentView = "DASHBOARD"
    /\ view = "login"
    /\ errors = NoErrors
    /\ showTimeoutWarning = FALSE
    /\ sinceActivity = 0
    /\ sinceEvent = 0
    /\ sinceCheck = 0
    /\ signingOut = 0
    /\ lastCheck = NoCheck

NextApp ==
    \/ \E newView \in {"login", "signup"} : resetForm(newView)
    \/ \E name \in Names : \E email \in Emails : \E password \in Passwords :
           \E outcome \in SignupOutcomes :
               handleSignupSubmit(name, email, password, outcome)
    \/ \E uid \in 1..Len(authUsers) : emailVerification(uid)
    \/ \E email \in Emails : \E password \in Passwords :
           \E readOk \in BOOLEAN : \E writeOk \in BOOLEAN :
               handleLoginSubmit(email, password, readOk, writeOk)
    \/ \E v \in ViewStates : handleNavigate(v)
    \/ handleLogout
    \/ \E ok \in BOOLEAN : signOutSettles(ok)
    \/ \E target \in 1..Len(usersCollection) : toggleUserRole(target)

AppSpec == InitApp /\ [][NextApp]_vars

(***************************************************************************)
(* The inactivity timer of App while a user is signed in. Times are in ms; *)
(* sinceActivity stands for Date.now() - lastActivityRef.current.          *)
(***************************************************************************)
INACTIVITY_LIMIT_MS == 15 * 60 * 1000

WARNING_THRESHOLD_MS == 60 * 1000

\* the delay given to setInterval
CheckPeriodMs == 1000

\* how late the callback of the interval may run
MaxLateMs == 500

\* the periods of the interval that are followed after the limit has passed
MaxOverdueChecks == 2

\* the steps in which time passes
TimeSteps == {500, 1000}

timeRemaining(timeSinceLastActivity) == INACTIVITY_LIMIT_MS - timeSinceLastActivity

\* variant: the logout waits until the limit is exceeded
logoutIsDue_Strict(remaining) == remaining < 0

\* the first test of the interval callback
logoutIsDue(remaining) == remaining <= 0

\* the second test of the interval callback
warningIsDue(remaining) == remaining <= WARNING_THRESHOLD_MS

\* d ms pass with no event, no callback and no promise settling; the callback
\* of the interval runs before it is more than MaxLateMs late
wait(d) ==
    /\ currentUser # NoUser
    /\ signingOut < MaxPendingSignOuts
    /\ sinceCheck + d <= CheckPeriodMs + MaxLateMs
    /\ sinceActivity + d <= INACTIVITY_LIMIT_MS + MaxOverdueChecks * CheckPeriodMs
    /\ sinceActivity' = sinceActivity + d
    /\ sinceEvent' = sinceEvent + d
    /\ sinceCheck' = sinceCheck + d
    /\ UNCHANGED << authUsers, usersCollection, signups, currentUser,
                    currentView, view, errors, showTimeoutWarning, signingOut,
                    lastCheck, queueVars, analysisVars, docsVars, submitVars >>

\* mousedown, mousemove, keydown, scroll or touchstart on the window
handleActivity ==
    /\ currentUser # NoUser
    /\ sinceActivity' = 0
    /\ sinceEvent' = 0
    /\ UNCHANGED << authUsers, usersCollection, signups, currentUser,
                    currentView, view, errors, showTimeoutWarning, sinceCheck,
                    signingOut, lastCheck, queueVars, analysisVars, docsVars, submitVars >>

\* the callback of setInterval; handleLogout() runs up to await signOut(auth)
checkInterval ==
    /\ currentUser # NoUser
    /\ sinceCheck >= CheckPeriodMs
    /\ sinceCheck' = 0
    /\ lastCheck' = [limitPassed |-> sinceEvent >= INACTIVITY_LIMIT_MS,
                     logout |-> logoutIsDue(timeRemaining(sinceActivity))]
    /\ IF logoutIsDue(timeRemaining(sinceActivity))
       THEN /\ signingOut' = signingOut + 1
            /\ UNCHANGED showTimeoutWarning
       ELSE IF warningIsDue(timeRemaining(sinceActivity))
       THEN /\ showTimeoutWarning' = TRUE
            /\ UNCHANGED signingOut
       ELSE UNCHANGED << showTimeoutWarning, signingOut >>
    /\ UNCHANGED << authUsers, usersCollection, signups, currentUser,
                    currentView, view, errors, sinceActivity, sinceEvent,
                    queueVars, analysisVars, docsVars, submitVars >>

\* the Stay Logged In button of the warning; the click is a mousedown on the
\* window as well
resetInactivityTimer ==
    /\ currentUser # NoUser
    /\ showTimeoutWarning
    /\ sinceActivity' = 0
    /\ sinceEvent' = 0
    /\ showTimeoutWarning' = FALSE
    /\ UNCHANGED << authUsers, usersCollection, signups, currentUser,
                    currentView, view, errors, sinceCheck, signingOut,
                    lastCheck, queueVars, analysisVars, docsVars, submitVars >>

\* the user of the session the timer is followed for
SessionRoles == {Admin, Employee}

\* onAuthStateChanged has just set currentUser, and the effect the interval
InitTimer ==
    /\ NoUploads
    /\ NoDocumentsPage
    /\ authUsers = << LegacyAccount >>
    /\ \E role \in SessionRoles :
           /\ usersCollection = << [LegacyDocument EXCEPT !.role = role] >>
           /\ currentUser = [id |-> 1, role |-> role, avatarUrl |-> FALSE]
    /\ signups = << >>
    /\ currentView = "DASHBOARD"
    /\ view = "login"
    /\ errors = NoErrors
    /\ showTimeoutWarning = FALSE
    /\ sinceActivity = 0
    /\ sinceEvent = 0
    /\ sinceCheck = 0
    /\ signingOut = 0
    /\ lastCheck = NoCheck

NextTimer ==
    \/ \E d \in TimeSteps : wait(d)
    \/ handleActivity
    \/ checkInterval
    \/ resetInactivityTimer
    \/ handleLogout
    \/ \E ok \in BOOLEAN : signOutSettles(ok)
    \/ handleProfileUpdate

TimerSpec == InitTimer /\ [][NextTimer]_vars

(***************************************************************************)
(* AllDocuments (src/pages/AllDocuments.tsx): the page of an administrator *)
(* and the page of an employee, open at the same time on the same stored   *)
(* documents.  The filters are left at 'All'.                              *)
(***************************************************************************)
\* DocStatus.PROCESSED, the status handleBulkUpload stores
Processed == "Processed"

\* DocStatus.COMPLETE
Complete == "Complete"

\* the currentUser of each page
Viewers == [ u0 |-> [id |-> "u0", role |-> Admin],
             u1 |-> [id |-> "u1", role |-> Employee] ]

ViewerIds == DOMAIN Viewers

\* the employees documents are stored for
EmployeeIds == {"u1", "u2"}

\* documents stored when the pages are opened
MaxStoredDocuments == 2

\* fetchDocuments calls of one page awaiting getDocs at the same time
MaxFetching == 1

\* no handleBulkMarkProcessed call is awaiting batch.commit
NoCommit == [selectedIds |-> {}, updates |-> {}]

\* collectionGroup(db, 'documents') for an administrator,
\* collection(db, 'users', currentUser.id, 'documents') for an employee
visibleTo(user, id) ==
    user.role = Admin \/ storedDocuments[id].employeeId = user.id

\* the ids of a set from the latest upload to the earliest
RECURSIVE latestFirst(_)
latestFirst(ids) ==
    IF ids = {} THEN << >>
    ELSE << Max(ids) >> \o latestFirst(ids \ {Max(ids)})

\* loadedDocs after the forEach and the sort by uploadDate, latest first;
\* documents are uploaded in the order of their ids
loadedDocs(user) ==
    LET ids == latestFirst({ id \in 1..Len(storedDocuments) : visibleTo(user, id) })
    IN  [ k \in 1..Len(ids) |->
            [id |-> ids[k], employeeId |-> storedDocuments[ids[k]].employeeId,
             status |-> storedDocuments[ids[k]].status] ]

\* the Refresh button: fetchDocuments up to await getDocs(q)
fetchDocuments(u) ==
    /\ fetching[u] < MaxFetching
    /\ fetching' = [fetching EXCEPT ![u] = @ + 1]
    /\ selectedIds' = [selectedIds EXCEPT ![u] = {}]
    /\ UNCHANGED << storedDocuments, pageDocuments, isBulkProcessing,
                    committing, downloading, queueVars, analysisVars,
                    submitVars, appVars >>

\* getDocs resolves (ok) with the documents as they are stored, or rejects
getDocsSettles(u, ok) ==
    /\ fetching[u] > 0
    /\ fetching' = [fetching EXCEPT ![u] = @ - 1]
    /\ pageDocuments' = IF ok
                        THEN [pageDocuments EXCEPT ![u] = loadedDocs(Viewers[u])]
                        ELSE pageDocuments
    /\ UNCHANGED << storedDocuments, selectedIds, isBulkProcessing, committing,
                    downloading, queueVars, analysisVars, submitVars, appVars >>

\* the ids of a list of documents
idsOfDocuments(docs) == { docs[k].id : k \in 1..Len(docs) }

\* the checkbox of a document
toggleSelectOne(u, id) ==
    /\ id \in idsOfDocuments(pageDocuments[u])
    /\ selectedIds' = [selectedIds EXCEPT
                          ![u] = IF id \in @ THEN @ \ {id} ELSE @ \cup {id}]
    /\ UNCHANGED << storedDocuments, pageDocuments, isBulkProcessing, fetching,
                    committing, downloading, queueVars, analysisVars,
                    submitVars, appVars >>

\* the Select All button, filteredDocs being all the documents of the page
toggleSelectAll(u) ==
    /\ Len(pageDocuments[u]) > 0
    /\ selectedIds' =
           [selectedIds EXCEPT
               ![u] = IF Cardinality(@) = Len(pageDocuments[u])
                      THEN {} ELSE idsOfDocuments(pageDocuments[u])]
    /\ UNCHANGED << storedDocuments, pageDocuments, isBulkProcessing, fetching,
                    committing, downloading, queueVars, analysisVars,
                    submitVars, appVars >>

\* prev.map(d => ids.has(d.id) ? { ...d, status } : d)
withStatus(docs, ids, status) ==
    [ k \in 1..Len(docs) |->
        IF docs[k].id \in ids THEN [docs[k] EXCEPT !.status = status] ELSE docs[k] ]

\* currentUser.role === UserRole.EMPLOYEE && docItem.status !== DocStatus.COMPLETE
marksComplete(user, docItem) ==
    user.role = Employee /\ docItem.status # Complete

\* the download link of the document at index k of the page: handleDownload
\* up to await updateDoc(docRef, { status: DocStatus.COMPLETE })
handleDownload(u, k) ==
    /\ k \in 1..Len(pageDocuments[u])
    /\ marksComplete(Viewers[u], pageDocuments[u][k])
    /\ pageDocuments[u][k].id \notin downloading[u]
    /\ downloading' = [downloading EXCEPT ![u] = @ \cup {pageDocuments[u][k].id}]
    /\ UNCHANGED << storedDocuments, pageDocuments, selectedIds,
                    isBulkProcessing, fetching, committing, queueVars,
                    analysisVars, submitVars, appVars >>

\* updateDoc on users/{currentUser.id}/documents/{id} resolves (ok) or
\* rejects; it rejects when there is no document at that path
handleDownloadSettles(u, id, ok) ==
    /\ id \in downloading[u]
    /\ downloading' = [downloading EXCEPT ![u] = @ \ {id}]
    /\ IF ok /\ storedDocuments[id].employeeId = Viewers[u].id
       THEN /\ storedDocuments' = [storedDocuments EXCEPT ![id].status = Complete]
            /\ pageDocuments' = [pageDocuments EXCEPT
                                    ![u] = withStatus(@, {id}, Complete)]
       ELSE UNCHANGED << storedDocuments, pageDocuments >>
    /\ UNCHANGED << selectedIds, isBulkProcessing, fetching, committing,
                    queueVars, analysisVars, submitVars, appVars >>

\* the ids for which documents.find(d => d.id === id) finds a docItem
batchUpdates(docs, ids) ==
    { id \in ids : \E k \in 1..Len(docs) : docs[k].id = id }

\* the Mark Processed button of the action bar, rendered for an administrator
\* while something is selected: handleBulkMarkProcessed up to batch.commit()
handleBulkMarkProcessed(u) ==
    /\ Viewers[u].role = Admin
    /\ selectedIds[u] # {}
    /\ ~isBulkProcessing[u]
    /\ isBulkProcessing' = [isBulkProcessing EXCEPT ![u] = TRUE]
    /\ committing' = [committing EXCEPT
                         ![u] = [selectedIds |-> selectedIds[u],
                                 updates |-> batchUpdates(pageDocuments[u],
                                                          selectedIds[u])]]
    /\ UNCHANGED << storedDocuments, pageDocuments, selectedIds, fetching,
                    downloading, queueVars, analysisVars, submitVars, appVars >>

\* batch.commit() resolves (ok) or rejects
batchCommitSettles(u, ok) ==
    /\ isBulkProcessing[u]
    /\ isBulkProcessing' = [isBulkProcessing EXCEPT ![u] = FALSE]
    /\ committing' = [committing EXCEPT ![u] = NoCommit]
    /\ IF ok
       THEN /\ storedDocuments' =
                   [ id \in 1..Len(storedDocuments) |->
                       IF id \in committing[u].updates
                       THEN [storedDocuments[id] EXCEPT !.status = Processed]
                       ELSE storedDocuments[id] ]
            /\ pageDocuments' =
                   [pageDocuments EXCEPT
                       ![u] = withStatus(@, committing[u].selectedIds, Processed)]
            /\ selectedIds' = [selectedIds EXCEPT ![u] = {}]
       ELSE UNCHANGED << storedDocuments, pageDocuments, selectedIds >>
    /\ UNCHANGED << fetching, downloading, queueVars, analysisVars, submitVars,
                    appVars >>

\* both pages have been mounted and their first fetchDocuments awaits getDocs
InitDocuments ==
    /\ NoUploads
    /\ NotSignedIn
    /\ \E n \in 1..MaxStoredDocuments :
           storedDocuments \in [1..n -> [employeeId : EmployeeIds,
                                         status : {Processed}]]
    /\ pageDocuments = [u \in ViewerIds |-> << >>]
    /\ selectedIds = [u \in ViewerIds |-> {}]
    /\ isBulkProcessing = [u \in ViewerIds |-> FALSE]
    /\ fetching = [u \in ViewerIds |-> 1]
    /\ committing = [u \in ViewerIds |-> NoCommit]
    /\ downloading = [u \in ViewerIds |-> {}]

NextDocuments ==
    \/ \E u \in ViewerIds : fetchDocuments(u)
    \/ \E u \in ViewerIds : \E ok \in BOOLEAN : getDocsSettles(u, ok)
    \/ \E u \in ViewerIds : \E id \in 1..Len(storedDocuments) : toggleSelectOne(u, id)
    \/ \E u \in ViewerIds : toggleSelectAll(u)
    \/ \E u \in ViewerIds : \E k \in 1..Len(storedDocuments) : handleDownload(u, k)
    \/ \E u \in ViewerIds : \E id \in 1..Len(storedDocuments) : \E ok \in BOOLEAN :
           handleDownloadSettles(u, id, ok)
    \/ \E u \in ViewerIds : handleBulkMarkProcessed(u)
    \/ \E u \in ViewerIds : \E ok \in BOOLEAN : batchCommitSettles(u, ok)

DocumentsSpec == InitDocuments /\ [][NextDocuments]_vars

(***************************************************************************)
(* Properties of the upload queue                                          *)
(***************************************************************************)
Terminal == {"success", "error"}

\* the status of the item with this id, "absent" when it is not in q
StatusOf(q, id) ==
    IF \E i \in 1..Len(q) : q[i].id = id
    THEN q[CHOOSE i \in 1..Len(q) : q[i].id = id].status
    ELSE "absent"

ItemOf(q, id) == q[CHOOSE i \in 1..Len(q) : q[i].id = id]

DocIds == 1..MaxFiles

\* this step sets the item to analyzing
Starts(id) == StatusOf(queue', id) = "analyzing" /\ StatusOf(queue, id) # "analyzing"

\* this step ends the analysis of the item
Finishes(id) == StatusOf(queue, id) = "analyzing" /\ StatusOf(queue', id) \in Terminal

Analyzing(q) == { i \in 1..Len(q) : q[i].status = "analyzing" }

Increasing(seq) == \A i, j \in 1..Len(seq) : i < j => seq[i] < seq[j]

\* C1: in every reachable state at most one item of the queue is analyzing
C1_OneAnalyzing == Cardinality(Analyzing(queue)) <= 1

\* one item is analyzing while another waits and a third is done
C1_Witness ==
    /\ Cardinality(Analyzing(queue)) = 1
    /\ \E i, j \in 1..Len(queue) :
          queue[i].status = "pending" /\ queue[j].status \in Terminal

\* C2: items begin analysis in the order they were appended: when an item is
\* set to analyzing no item before it in the queue is pending, and the ids
\* set to analyzing so far are in increasing order
C2_FifoStart ==
    [][ /\ \A id \in DocIds :
              Starts(id) =>
                  \A j \in 1..Len(queue') :
                      queue'[j].id < id => queue'[j].status # "pending"
        /\ Increasing(started') ]_vars

\* all three files began analysis, one after the other
C2_Witness == Len(started) = 3 /\ removedPending = {} /\ nextId = 4

\* C3: an item is set to analyzing only when no analysis is in flight and, once
\* it is set, no settle timer is left to fire
C3_StartAfterSettle ==
    [][ (\E id \in DocIds : Starts(id)) => (running = {} /\ timers' = 0) ]_vars

\* the second item is analyzing after the first has ended and its timer fired
C3_Witness ==
    /\ Len(started) = 2
    /\ StatusOf(queue, started[1]) \in Terminal
    /\ StatusOf(queue, started[2]) = "analyzing"
    /\ timers = 0

\* C4: the status of an item changes only pending -> analyzing,
\* analyzing -> success or analyzing -> error, and no item is set to analyzing
\* twice
C4_StatusTransitions ==
    [][ /\ \A id \in DocIds :
              \/ StatusOf(queue', id) = StatusOf(queue, id)
              \/ StatusOf(queue', id) = "absent"
              \/ << StatusOf(queue, id), StatusOf(queue', id) >> \in
                    { <<"absent", "pending">>, <<"absent", "analyzing">>,
                      <<"pending", "analyzing">>, <<"analyzing", "success">>,
                      <<"analyzing", "error">> }
        /\ \A i, j \in 1..Len(started') : i # j => started'[i] # started'[j] ]_vars

\* an item stays in error after an edit, a new users list and a later analysis
C4_Witness ==
    /\ edits > 0
    /\ userChanges > 0
    /\ \E i, j \in 1..Len(queue) :
          /\ queue[i].status = "error"
          /\ queue[i].title # << >>
          /\ queue[j].id > queue[i].id
          /\ queue[j].status \in Terminal

\* the analyzeFile call in flight for the item
TaskOf(id) == CHOOSE t \in running : t.docId = id

\* the file name without its extension, upper-cased
UpperNameOf(f) == toUpperCase(stripExtension(f.name))

\* the text read from the file, upper-cased
UpperTextOf(f) == toUpperCase(extractText(f))

\* the loop over the known employees stops at a name that is not a string
UserLoopThrows(users, f) ==
    LET h == firstUserHit(users, UpperNameOf(f), UpperTextOf(f))
    IN  h # << >> /\ ~h[1].nameIsString

\* the queue processor is never idle while an item is pending
NoPendingWhenIdle(q, adi) ==
    adi = NoDoc => \A i \in 1..Len(q) : q[i].status # "pending"

C6_EveryItemSettles ==
    \A id \in DocIds :
        (StatusOf(queue, id) # "absent")
            ~> (StatusOf(queue, id) \in Terminal \/ StatusOf(queue, id) = "absent")

\* an analysis failed and the items behind it were still analysed
C6_Witness ==
    \E i, j \in 1..Len(queue) :
        /\ i < j
        /\ queue[i].status = "error"
        /\ queue[j].status \in Terminal
        /\ analyzingDocId = NoDoc

\* C7: an item removed while pending is in the queue no more, was never set
\* to analyzing and has no analysis in flight, and the items set to analyzing
\* are still taken in queue order
C7_RemovedNeverAnalysed ==
    /\ \A id \in removedPending :
          /\ StatusOf(queue, id) = "absent"
          /\ \A k \in 1..Len(started) : started[k] # id
          /\ \A t \in running : t.docId # id
    /\ Increasing(started)

\* the second of three items was removed while pending and the third was
\* analysed after the first
C7_Witness ==
    /\ removedPending = {2}
    /\ started = <<1, 3>>
    /\ StatusOf(queue, 3) \in Terminal

\* C8: at the moment an item reaches success, 'amount' is auto-filled iff the
\* amount is not empty, 'period' iff the period is not empty, and 'employee'
\* iff the selected employee's name occurs in the file name or the text
C8_AutoFilledIffDerived ==
    [][ \A id \in DocIds :
            (Finishes(id) /\ StatusOf(queue', id) = "success") =>
                LET d     == ItemOf(queue', id)
                    f     == Files[d.file]
                    users == TaskOf(id).users
                    F     == Range(d.extractedFields)
                IN  /\ "amount" \in F <=> d.amount # << >>
                    /\ "period" \in F <=> d.period # << >>
                    /\ "employee" \in F <=>
                          \E k \in 1..Len(users) :
                              /\ users[k].id = d.selectedUserId
                              /\ nameOccurs(users[k], UpperNameOf(f), UpperTextOf(f))
      ]_vars

\* an item was given the only known employee without a match by name, next
\* to an amount found in its text
C8_Witness ==
    \E i \in 1..Len(queue) :
        /\ queue[i].status = "success"
        /\ edits = 0
        /\ queue[i].selectedUserId # ""
        /\ "employee" \notin Range(queue[i].extractedFields)
        /\ "amount" \in Range(queue[i].extractedFields)

\* C9 as stated: an item that reaches success or error has the title derived
\* from its file name and has 'title' in its auto-filled set
C9_TitleAtTerminal ==
    [][ \A id \in DocIds :
            Finishes(id) =>
                LET d == ItemOf(queue', id)
                IN  /\ d.title = UpperNameOf(Files[d.file])
                    /\ "title" \in Range(d.extractedFields) ]_vars

\* "1234.56"
NetPayOfYtdText == <<"1","2","3","4",".","5","6">>

\* C10 as stated: for the text "Net Pay: GHS 1,234.56 YTD 10,000.00" the
\* amount stays blank and 'amount' is not auto-filled
C10_Original ==
    [][ \A id \in DocIds :
            (Finishes(id) /\ StatusOf(queue', id) = "success"
                          /\ ItemOf(queue', id).file = "ytd") =>
                /\ ItemOf(queue', id).amount = << >>
                /\ "amount" \notin Range(ItemOf(queue', id).extractedFields) ]_vars

\* C10 amended: for that text the amount is "1234.56", the amount between the
\* label and YTD, and 'amount' is auto-filled
C10_NetPayBeforeYtd ==
    [][ \A id \in DocIds :
            (Finishes(id) /\ StatusOf(queue', id) = "success"
                          /\ ItemOf(queue', id).file = "ytd") =>
                /\ ItemOf(queue', id).amount = NetPayOfYtdText
                /\ "amount" \in Range(ItemOf(queue', id).extractedFields) ]_vars

\* the file with that text was analysed
C10_Witness ==
    \E i \in 1..Len(queue) :
        /\ queue[i].file = "ytd"
        /\ queue[i].status = "success"
        /\ edits = 0
        /\ queue[i].amount # << >>

\* C27: the step in which the analysis of a file ends, with success or with
\* an error, leaves the queue with the same items in the same order, and
\* every item other than the analysed one exactly as it was
C27_CompletionChangesOneItem ==
    [][ \A task \in running :
          task \notin running' =>
              /\ Len(queue') = Len(queue)
              /\ \A i \in 1..Len(queue) :
                    /\ queue'[i].id = queue[i].id
                    /\ queue[i].id # task.docId => queue'[i] = queue[i] ]_vars

\* the analysis of the first item has ended, the settle timer has not fired,
\* and an item behind it is still pending
C27_Witness ==
    /\ Len(queue) >= 2
    /\ queue[1].status \in Terminal
    /\ analyzingDocId = queue[1].id
    /\ running = {}
    /\ queue[2].status = "pending"

(***************************************************************************)
(* Properties of one analyzeFile call                                      *)
(***************************************************************************)
\* the text analyzeFile reads from the sample
TextOf(s) == extractText(s.file)

\* the sample was analysed without a throw
Analysed == analysis # << >> /\ ~analysis[1].threw

\* "2500.00"
Amount2500 == <<"2","5","0","0",".","0","0">>

\* "GHC 2,500.00" stands at k
GhcAt(t, k) ==
    /\ k + Len(Ghc2500) - 1 <= Len(t)
    /\ SubSeq(t, k, k + Len(Ghc2500) - 1) = Ghc2500

\* after a label that ends before e come only non-digits, then "GHC 2,500.00"
GhcAfter(t, e) ==
    /\ e # 0
    /\ \E k \in e..Len(t) : GhcAt(t, k) /\ \A j \in e..(k - 1) : NotDigit(t[j])

\* some net-pay label starts at p
LabelAt(t, p) == \E a \in 1..Len(NetPayLabels) : MatchLabel(t, p, NetPayLabels[a]) # 0

\* a net-pay label is followed, over non-digits only, by "GHC 2,500.00"
LabelThenGhc(t) ==
    \E p \in 1..Len(t) : \E a \in 1..Len(NetPayLabels) :
        GhcAfter(t, MatchLabel(t, p, NetPayLabels[a]))

\* the same for the first label of the text, which YTD does not follow
FirstLabelThenGhc(t) ==
    \E p \in 1..Len(t) : \E a \in 1..Len(NetPayLabels) :
        /\ GhcAfter(t, MatchLabel(t, p, NetPayLabels[a]))
        /\ ~YtdAhead(t, MatchLabel(t, p, NetPayLabels[a]))
        /\ \A q \in 1..(p - 1) : ~LabelAt(t, q)

WordAt(s, p, w) ==
    /\ p + Len(w) - 1 <= Len(s)
    /\ SubSeq(s, p, p + Len(w) - 1) = w
    /\ (p = 1 \/ ~IsAlpha(s[p - 1]))
    /\ (p + Len(w) > Len(s) \/ ~IsAlpha(s[p + Len(w)]))

\* the months that the upper-cased s names by a word, in full or abbreviated
MonthsNamed(s) ==
    { i \in 1..Len(months) :
        \E p \in 1..Len(s) : WordAt(s, p, months[i]) \/ WordAt(s, p, fullMonths[i]) }

\* the years 2020..2039 written in s
YearsNamed(s) ==
    { SubSeq(s, p, p + 3) :
        p \in { q \in 1..(Len(s) - 3) :
                  /\ s[q] = "2"
                  /\ s[q + 1] = "0"
                  /\ s[q + 2] \in {"2", "3"}
                  /\ IsDigit(s[q + 3]) } }

\* the titlecase abbreviations
Mon == << <<"J","a","n">>,
          <<"F","e","b">>,
          <<"M","a","r">>,
          <<"A","p","r">>,
          <<"M","a","y">>,
          <<"J","u","n">>,
          <<"J","u","l">>,
          <<"A","u","g">>,
          <<"S","e","p">>,
          <<"O","c","t">>,
          <<"N","o","v">>,
          <<"D","e","c">> >>

\* C12 as stated: when the file name names a month and a year in 2020..2039,
\* then whatever the document text, the period is the titlecase abbreviation
\* of that month, a space and that year, and 'period' is auto-filled
C12_PeriodFromFileName ==
    Analysed =>
        \A i \in MonthsNamed(UpperNameOf(sample.file)) :
            \A y \in YearsNamed(UpperNameOf(sample.file)) :
                /\ analysis[1].period = Mon[i] \o <<" ">> \o y
                /\ "period" \in Range(analysis[1].extractedFields)

\* the full month names that occur in the upper-cased s
FullMonthsIn(s) == { i \in 1..Len(fullMonths) : includes(s, fullMonths[i]) }

\* the month abbreviations that stand in the upper-cased s as a word: no
\* letter before, no letter after
AbbreviationWords(s) ==
    { i \in 1..Len(months) : \E p \in 1..Len(s) : WordAt(s, p, months[i]) }

\* C21: when neither the file name nor the text holds a full month name, a
\* month abbreviation sets the period only where it stands as a word: when
\* none does, in the file name or in the text, the period stays blank and
\* 'period' is not auto-filled
C21_AbbreviationOnlyAsWord ==
    ( /\ Analysed
      /\ FullMonthsIn(UpperNameOf(sample.file)) = {}
      /\ FullMonthsIn(UpperTextOf(sample.file)) = {}
      /\ AbbreviationWords(UpperNameOf(sample.file)) = {}
      /\ AbbreviationWords(UpperTextOf(sample.file)) = {} ) =>
        /\ analysis[1].period = << >>
        /\ "period" \notin Range(analysis[1].extractedFields)

\* the known employees with this display name
UsersNamed(users, name) == { k \in 1..Len(users) : users[k].name = name }

\* no known employee's name occurs in the upper-cased text
NoNameInText(users, text) ==
    \A k \in 1..Len(users) : ~includes(toUpperCase(text), toUpperCase(users[k].name))

\* C13 as stated: with the known employees "Jane Doe" and "Jane" and the file
\* "JANE_DOE_PAYSLIP.pdf", whose text names no employee, the employee selected
\* is "Jane Doe", not "Jane"
C13_LongerNameWins ==
    ( /\ Analysed
      /\ sample.users = JaneAndJaneDoe
      /\ sample.file.name = JaneDoePayslipPdf
      /\ NoNameInText(sample.users, TextOf(sample)) ) =>
        \E k \in UsersNamed(sample.users, <<"J","a","n","e"," ","D","o","e">>) :
            analysis[1].selectedUserId = sample.users[k].id

\* no known employee's name occurs in the name or the text of the file
NoNameOccurs(users, f) ==
    \A k \in 1..Len(users) :
        users[k].nameIsString /\ ~nameOccurs(users[k], UpperNameOf(f), UpperTextOf(f))

\* C14: when an analysis ends and no employee known to it is named in the
\* file name or the text, the item's selected employee is the only known
\* employee when exactly one is known and is empty when none or several are
\* known, and 'employee' is not auto-filled
C14_FallbackNotAutoFilled ==
    [][ \A id \in DocIds :
            ( /\ Finishes(id)
              /\ NoNameOccurs(TaskOf(id).users, Files[ItemOf(queue, id).file]) ) =>
                LET d     == ItemOf(queue', id)
                    users == TaskOf(id).users
                IN  /\ d.status = "success"
                    /\ Len(users) = 1 => d.selectedUserId = users[1].id
                    /\ Len(users) # 1 => d.selectedUserId = ""
                    /\ "employee" \notin Range(d.extractedFields) ]_vars

\* one item was analysed while no employee was known and is left without an
\* employee, a later one was given the only employee known by then
C14_Witness ==
    \E i, j \in 1..Len(queue) :
        /\ edits = 0
        /\ queue[i].status = "success"
        /\ queue[i].selectedUserId = ""
        /\ queue[j].status = "success"
        /\ queue[j].selectedUserId = OnlyCurrentUser[1].id
        /\ "employee" \notin Range(queue[j].extractedFields)

(***************************************************************************)
(* Properties of handleBulkUpload                                          *)
(***************************************************************************)
IdsOf(docs) == [ k \in 1..Len(docs) |-> docs[k].id ]

IsPrefix(s, t) == Len(s) <= Len(t) /\ SubSeq(t, 1, Len(s)) = s

\* the loop has taken the docItems of its closure one by one in queue order,
\* up to the one it stands at, and all of them once it has ended
TakenInOrder ==
    attempted = IdsOf(SubSeq(closure.docs, 1,
                             IF cursor = 0 THEN Len(closure.docs) ELSE cursor))

\* every write begins after the write before it has ended
OneWriteAtATime(log) ==
    \A k \in 1..Len(log) :
        IF k % 2 = 1 THEN log[k].event = "begin"
        ELSE log[k].event = "end" /\ log[k].doc = log[k - 1].doc

\* C15: bulk submission takes the items one at a time in queue order, an
\* item's write ending before the next begins; an item that is skipped or
\* fails does not keep the later ones from being taken, and no record written
\* before is taken back
C15_SequentialIndependent ==
    [][ /\ TakenInOrder'
        /\ OneWriteAtATime(writeLog')
        /\ IsPrefix(documents, documents') ]_vars

\* the first item failed with an alert, the second was written after it, and
\* the call has ended
C15_Witness ==
    /\ cursor = 0
    /\ \E k \in 1..Len(alerts) :
          alerts[k].doc = 1 /\ alerts[k].kind \in {"process", "save"}
    /\ \E k \in 1..Len(documents) : documents[k].of = 2

\* C16 as stated: once a bulk submission has ended, every item of it without
\* a written record has an alert of its own
C16_EveryFailureReported ==
    (cursor = 0 /\ closure # NoBatch) =>
        \A k \in 1..Len(closure.docs) :
            (\A r \in 1..Len(documents) : documents[r].of # closure.docs[k].id) =>
                \E a \in 1..Len(alerts) : alerts[a].doc = closure.docs[k].id

\* after a label that ends before e come optional spaces and then YTD
YtdFollows(t, e) == MatchLit(t, RunEnd(t, e, "\\s"), <<"Y","T","D">>)

\* the ends of the net-pay label occurrences of the text
LabelEnds(t) ==
    { MatchLabel(t, c[1], NetPayLabels[c[2]]) :
        c \in (1..Len(t)) \X (1..Len(NetPayLabels)) } \ {0}

\* the text has net-pay labels, and YTD follows every one of them
EveryLabelBeforeYtd(t) ==
    LabelEnds(t) # {} /\ \A e \in LabelEnds(t) : YtdFollows(t, e)

\* C20: no amount is returned that is paired with a net-pay label directly
\* followed by YTD, whichever of the two patterns finds it; so for a text
\* in which YTD directly follows every net-pay label the amount stays blank
\* and 'amount' is not auto-filled
C20_NoAmountBesideYtdLabel ==
    (Analysed /\ EveryLabelBeforeYtd(TextOf(sample))) =>
        /\ analysis[1].amount = << >>
        /\ "amount" \notin Range(analysis[1].extractedFields)

\* a record is written in the step
RecordWritten == Len(documents') > Len(documents)

\* C22 as stated: every record bulk submission writes comes from an item whose
\* status was success or error when the upload button was clicked, never from
\* one still pending or analyzing
C22_OnlyAnalysedItemsWritten ==
    [][ RecordWritten => closure.docs[cursor].status \in Terminal ]_vars

\* the step in which a call of handleBulkUpload that passed validation ends:
\* after its last await, or at the click when the loop awaits nothing
SubmissionEnds ==
    \/ isSubmitting /\ ~isSubmitting'
    \/ submits' # submits /\ ~isSubmitting' /\ invalidDocs(queue) = << >>

\* C23 as stated: when a bulk submission ends, every item of the queue for
\* which no record was written is still in the queue
C23_UnwrittenItemsKept ==
    [][ SubmissionEnds =>
          \A i \in 1..Len(queue) :
              (\A r \in 1..Len(documents') : documents'[r].of # queue[i].id) =>
                  \E j \in 1..Len(queue') : queue'[j].id = queue[i].id ]_vars

\* the records written from the item id
RecordsOf(id) == { r \in 1..Len(documents) : documents[r].of = id }

\* d is a manual entry with a name and an email
ManualWithNameAndEmail(d) ==
    d.isManualEntry /\ d.manualName # "" /\ d.manualEmail # ""

\* C24 as stated: once a bulk submission has ended, every item of it that is
\* a manual entry with a name and an email, within the size limit and without
\* a failed conversion or write, has exactly one stored record
C24_ManualEntryStored ==
    (cursor = 0 /\ closure # NoBatch) =>
        \A k \in 1..Len(closure.docs) :
            ( /\ ManualWithNameAndEmail(closure.docs[k])
              /\ ~oversized(closure.docs[k])
              /\ \A a \in 1..Len(alerts) : alerts[a].doc # closure.docs[k].id ) =>
                 Cardinality(RecordsOf(closure.docs[k].id)) = 1

\* d has no employee: no selected employee, or a manual entry that lacks its
\* name or its email
NoEmployee(d) ==
    IF d.isManualEntry THEN d.manualName = "" \/ d.manualEmail = ""
    ELSE d.selectedUserId = ""

\* the upload button is clicked in the step
UploadClicked == submits' # submits

\* C25: a click on the upload button while some item of the queue has no
\* employee writes no record, starts no submission, and leaves the queue with
\* every item, the success count and the submitting flag as they were
C25_InvalidQueueNotSubmitted ==
    [][ (UploadClicked /\ \E i \in 1..Len(queue) : NoEmployee(queue[i])) =>
          /\ UNCHANGED << documents, queue, successCount, isSubmitting >>
          /\ stage' = "idle" ]_vars

\* the button was clicked on a queue with a manual entry without email next
\* to an item with an employee, and only the alert was shown
C25_Witness ==
    /\ submits > 0
    /\ closure = NoBatch
    /\ documents = << >>
    /\ \E a \in 1..Len(alerts) : alerts[a].kind = "select"
    /\ \E i \in 1..Len(queue) : queue[i].isManualEntry /\ queue[i].manualEmail = ""
    /\ \E i \in 1..Len(queue) : ~NoEmployee(queue[i])

(***************************************************************************)
(* Properties of sign-up and of the session                                *)
(***************************************************************************)
\* the address contains 'admin', in any case
hasAdminWord(email) == includes(toLowerCase(email), AdminWord)

\* the sign-ups before the i-th whose address contains 'admin'
EarlierAdminSignups(i) == { j \in 1..(i - 1) : hasAdminWord(signups[j].email) }

\* C17: of the sign-ups whose users document was stored, only the first
\* whose email contains the word 'admin' is stored with the Admin role, and
\* every other one is stored with the Employee role
C17_OnlyFirstAdminSignup ==
    \A i \in 1..Len(signups) :
        signups[i].role # NoRole =>
            signups[i].role =
                IF hasAdminWord(signups[i].email) /\ EarlierAdminSignups(i) = {}
                THEN Admin
                ELSE Employee

\* the page App shows in this state
Rendered == renderContent(currentUser, currentView)

\* the two screens of the administrator
AdminScreens == {"UploadDocuments", "ManageUsers"}

\* the views that lead to them
AdminViews == {"UPLOAD", "USERS"}

\* C18: Upload Documents and Manage Users are rendered only while the role
\* of currentUser is Admin, and a signed-in user with any other role whose
\* view is one of the two is shown the Dashboard
C18_AdminScreensOnlyForAdmin ==
    /\ Rendered \in AdminScreens => currentUser.role = Admin
    /\ (currentUser # NoUser /\ currentUser.role # Admin /\ currentView \in AdminViews)
           => Rendered = "Dashboard"

\* a user who is not an administrator has navigated to Manage Users
C18_Witness ==
    /\ currentUser # NoUser
    /\ currentUser.role # Admin
    /\ currentView = "USERS"
    /\ Rendered = "Dashboard"

\* C19: while a user is signed in, the callback of the interval calls
\* handleLogout exactly when 15 minutes or more have passed since the last
\* activity event (or since the sign-in, if there was none): at the first
\* such check, and at no check made earlier
C19_LogoutAtFirstLateCheck == lastCheck.logout = lastCheck.limitPassed

\* a check has found the limit passed and has called handleLogout
C19_Witness == lastCheck.logout /\ lastCheck.limitPassed /\ signingOut > 0

\* C26 as stated: while a user is signed in the timeout warning is visible
\* only while at most 60 seconds remain before the inactivity logout; after
\* an activity event has reset the timer it is not visible
C26_WarningOnlyInLastMinute ==
    (currentUser # NoUser /\ showTimeoutWarning) =>
        timeRemaining(sinceActivity) <= WARNING_THRESHOLD_MS

\* the callback of onAuthStateChanged sets currentUser in the step
SignsIn == currentUser = NoUser /\ currentUser' # NoUser

\* C28 as stated: the role given at sign-in is Admin only if the role of the
\* stored user record is Admin, and a user without a stored record is given
\* the Employee role
C28_RoleFromStoredRecord ==
    [][ SignsIn =>
          /\ currentUser'.role = Admin =>
                 usersCollection[currentUser'.id].role = Admin
          /\ usersCollection[currentUser'.id] = NoDocument =>
                 currentUser'.role = Employee ]_vars

\* C29: a current user is set only for an account whose email is verified;
\* the auth-state changes of a sign-up, of a sign-in with an unverified
\* account and of a sign-out leave it cleared
C29_SessionOnlyWhenVerified ==
    currentUser # NoUser => authUsers[currentUser.id].emailVerified

\* an account created by sign-up in this run has been verified and has
\* signed in
C29_Witness ==
    /\ currentUser # NoUser
    /\ \E k \in 1..Len(signups) :
          toLowerCase(signups[k].email) = authUsers[currentUser.id].email
    /\ authUsers[currentUser.id].emailVerified

(***************************************************************************)
(* Properties of AllDocuments                                              *)
(***************************************************************************)
\* C30 as stated: a stored document whose status is Complete (which only the
\* download of an employee sets) keeps that status in every later step
C30_CompleteIsFinal ==
    [][ \A id \in 1..Len(storedDocuments) :
          storedDocuments[id].status = Complete =>
              storedDocuments'[id].status = Complete ]_vars
====
